---- MODULE Spec2Model ----
(***************************************************************************)
(* Model of the mjlog parser of tenhou-log-parser (src/src/parser.rs,      *)
(* src/src/tile.rs).  The reader hands the parser one start/empty tag at a *)
(* time; MjlogParser::parse dispatches it on its name to a builder that    *)
(* reads the attributes and updates the parser's fields.                   *)
(*                                                                         *)
(* Text (tag names, attribute keys and values, tile names) is a sequence   *)
(* of one-character strings, so that split(','), str::parse and format!    *)
(* are computed character by character as the code computes them.          *)
(***************************************************************************)
EXTENDS Integers, Sequences, FiniteSets, TLC

(***************************************************************************)
(* Bounds of the model.                                                    *)
(***************************************************************************)
\* Longest tag stream the reader delivers before end of file, when the tags
\* are drawn from all of Tags.
MaxTags == 2

\* Longest tag stream when the tags are drawn from RoundTags only.
MaxRoundTags == 4

\* Longest tag stream when the tags are drawn from EventTags only.
MaxEventTags == 3

\* Longest tag stream when the tags are drawn from DispatchTags only.
MaxDispatchTags == 3

\* Longest tag stream of each of two calls, the tags drawn from CallTags.
MaxCallTags == 2

\* Longest tag stream when the tags are drawn from InputTags only.
MaxInputTags == 2

\* Largest tile id of the run 0..MaxTileId given to tile_id_to_string.
MaxTileId == 139

\* Most tokens in a list given to parse_tile_list.
MaxListLen == 3

(***************************************************************************)
(* Integer widths of the fields the builders parse into.  The model's      *)
(* integers end at i32::MAX: numeric text between 2^31 and u32::MAX is     *)
(* outside the model (it is read as out of range for every type), and no   *)
(* tag of the model carries such a number.                                 *)
(***************************************************************************)
U8_MAX == 255
I32_MAX == 2147483647

\* const MAX_FILE_SIZE: usize = 100 * 1024 * 1024;
MAX_FILE_SIZE == 104857600

(***************************************************************************)
(* str::parse::<u8|u32|i32>() : an optional sign, then one or more decimal *)
(* digits, and the value must fit the type.  A '-' is a digit error for    *)
(* the unsigned types.                                                     *)
(***************************************************************************)
DigitChars == <<"0", "1", "2", "3", "4", "5", "6", "7", "8", "9">>

IsDigit(c) == \E i \in 1..10 : DigitChars[i] = c

DigitVal(c) == (CHOOSE i \in 1..10 : DigitChars[i] = c) - 1

RECURSIVE DigitsValue(_, _)
\* Value of a run of decimal digits, most significant first; -1 if some
\* character is not a digit or the value passes I32_MAX.
DigitsValue(s, acc) ==
    IF s = <<>> THEN acc
    ELSE IF ~IsDigit(Head(s)) THEN -1
    ELSE IF acc > (I32_MAX - DigitVal(Head(s))) \div 10 THEN -1
    ELSE DigitsValue(Tail(s), acc * 10 + DigitVal(Head(s)))

\* Some(v) is <<v>>, None is <<>>.
ParseInRange(s, lo, hi) ==
    LET neg == s # <<>> /\ Head(s) = "-"
        signed == s # <<>> /\ Head(s) \in {"+", "-"}
        digits == IF signed THEN Tail(s) ELSE s
        mag == IF digits = <<>> THEN -1 ELSE DigitsValue(digits, 0)
        val == IF neg THEN 0 - mag ELSE mag
    IN  IF mag < 0 \/ (neg /\ lo >= 0) THEN <<>>
        ELSE IF val < lo \/ val > hi THEN <<>>
        ELSE <<val>>

ParseU8(s) == ParseInRange(s, 0, U8_MAX)

ParseU32(s) == ParseInRange(s, 0, I32_MAX)

ParseI32(s) == ParseInRange(s, 0 - I32_MAX, I32_MAX)

(***************************************************************************)
(* str::split(',') : the fields between the commas; the empty text has one *)
(* (empty) field.                                                          *)
(***************************************************************************)
RECURSIVE SplitFrom(_, _, _)
SplitFrom(s, cur, out) ==
    IF s = <<>> THEN Append(out, cur)
    ELSE IF Head(s) = "," THEN SplitFrom(Tail(s), <<>>, Append(out, cur))
    ELSE SplitFrom(Tail(s), Append(cur, Head(s)), out)

Split(s) == SplitFrom(s, <<>>, <<>>)

(***************************************************************************)
(* format!("{}", n) for a non-negative integer.                            *)
(***************************************************************************)
RECURSIVE Decimal(_)
Decimal(n) ==
    IF n < 10 THEN <<DigitChars[n + 1]>>
    ELSE Append(Decimal(n \div 10), DigitChars[(n % 10) + 1])

(***************************************************************************)
(* Tile codec (src/src/tile.rs).                                           *)
(***************************************************************************)
HonorNames ==
    <<  <<"e", "a", "s", "t">>,
        <<"s", "o", "u", "t", "h">>,
        <<"w", "e", "s", "t">>,
        <<"n", "o", "r", "t", "h">>,
        <<"w", "h", "i", "t", "e">>,
        <<"g", "r", "e", "e", "n">>,
        <<"r", "e", "d">>  >>

UnknownPrefix == <<"u", "n", "k", "n", "o", "w", "n", "_">>

\* The arm of the man tiles takes the tile types 0..=9.
tile_id_to_string_wide_man(id) ==
    LET tile_type == id \div 4
    IN  IF tile_type <= 9 THEN Append(Decimal(tile_type + 1), "m")
        ELSE IF tile_type <= 17 THEN Append(Decimal(tile_type - 8), "p")
        ELSE IF tile_type <= 26 THEN Append(Decimal(tile_type - 17), "s")
        ELSE IF tile_type <= 33 THEN HonorNames[tile_type - 26]
        ELSE UnknownPrefix \o Decimal(id)

tile_id_to_string(id) ==
    LET tile_type == id \div 4
    IN  IF tile_type <= 8 THEN Append(Decimal(tile_type + 1), "m")
        ELSE IF tile_type <= 17 THEN Append(Decimal(tile_type - 8), "p")
        ELSE IF tile_type <= 26 THEN Append(Decimal(tile_type - 17), "s")
        ELSE IF tile_type <= 33 THEN HonorNames[tile_type - 26]
        ELSE UnknownPrefix \o Decimal(id)

\* char::to_digit(10)
to_digit(c) == IF IsDigit(c) THEN <<DigitVal(c)>> ELSE <<>>

\* Ranks 0 to 9 are taken for a suit tile.
SuitTileTypeFromZero(s, first) ==
    LET num == to_digit(Head(s))
    IN  IF num = <<>> THEN <<>>
        ELSE IF num[1] \in 0..9 THEN <<num[1] - 1 + first>>
        ELSE <<>>

\* One arm `s if s.ends_with(suit) && s.len() == 2` of tile_string_to_id:
\* Some(tile_type) of the suit whose rank 1 has type first, None for the
\* InvalidFormat error.
SuitTileType(s, first) ==
    LET num == to_digit(Head(s))
    IN  IF num = <<>> THEN <<>>
        ELSE IF num[1] \in 1..9 THEN <<num[1] - 1 + first>>
        ELSE <<>>

\* str::ends_with(char)
EndsWith(s, c) == s # <<>> /\ s[Len(s)] = c

\* The match of tile_string_to_id: Some(tile_type), None for InvalidFormat.
TileTypeOfName(tile) ==
    IF EndsWith(tile, "m") /\ Len(tile) = 2 THEN SuitTileType(tile, 0)
    ELSE IF EndsWith(tile, "p") /\ Len(tile) = 2 THEN SuitTileType(tile, 9)
    ELSE IF EndsWith(tile, "s") /\ Len(tile) = 2 THEN SuitTileType(tile, 18)
    ELSE IF \E i \in 1..7 : HonorNames[i] = tile
    THEN <<26 + (CHOOSE i \in 1..7 : HonorNames[i] = tile)>>
    ELSE <<>>

\* The tile type is returned as it is, not multiplied by four.
tile_string_to_id_unscaled(tile) ==
    LET tile_type == TileTypeOfName(tile)
    IN  IF tile_type = <<>> THEN [err |-> "InvalidFormat", id |-> <<>>]
        ELSE [err |-> "none", id |-> <<tile_type[1]>>]

tile_string_to_id(tile) ==
    LET tile_type == TileTypeOfName(tile)
    IN  IF tile_type = <<>> THEN [err |-> "InvalidFormat", id |-> <<>>]
        ELSE [err |-> "none", id |-> <<tile_type[1] * 4>>]

RECURSIVE TileListFromSkipping(_, _)
\* A token that is no integer is skipped and the rest of the list is kept.
TileListFromSkipping(fields, out) ==
    IF fields = <<>> THEN [err |-> "none", tiles |-> out]
    ELSE LET id == ParseU32(Head(fields))
         IN  IF id = <<>> THEN TileListFromSkipping(Tail(fields), out)
             ELSE TileListFromSkipping(Tail(fields),
                                       Append(out, tile_id_to_string(id[1])))

RECURSIVE TileListFrom(_, _)
TileListFrom(fields, out) ==
    IF fields = <<>> THEN [err |-> "none", tiles |-> out]
    ELSE LET id == ParseU32(Head(fields))
         IN  IF id = <<>> THEN [err |-> "InvalidFormat", tiles |-> <<>>]
             ELSE TileListFrom(Tail(fields), Append(out, tile_id_to_string(id[1])))

parse_tile_list(tiles) ==
    IF tiles = <<>> THEN [err |-> "none", tiles |-> <<>>]
    ELSE TileListFrom(Split(tiles), <<>>)

(***************************************************************************)
(* The tag names MjlogParser::parse matches exactly, and the attribute     *)
(* keys the builders match.                                                *)
(***************************************************************************)
T_mjloggm == <<"m", "j", "l", "o", "g", "g", "m">>

T_GO == <<"G", "O">>

T_UN == <<"U", "N">>

T_TAIKYOKU == <<"T", "A", "I", "K", "Y", "O", "K", "U">>

T_INIT == <<"I", "N", "I", "T">>

T_N == <<"N">>

T_DORA == <<"D", "O", "R", "A">>

T_REACH == <<"R", "E", "A", "C", "H">>

T_AGARI == <<"A", "G", "A", "R", "I">>

T_RYUUKYOKU == <<"R", "Y", "U", "U", "K", "Y", "O", "K", "U">>

K_ver == <<"v", "e", "r">>

K_type == <<"t", "y", "p", "e">>

K_lobby == <<"l", "o", "b", "b", "y">>

K_n0 == <<"n", "0">>

K_n1 == <<"n", "1">>

K_n2 == <<"n", "2">>

K_n3 == <<"n", "3">>

K_dan == <<"d", "a", "n">>

K_rate == <<"r", "a", "t", "e">>

K_sx == <<"s", "x">>

K_oya == <<"o", "y", "a">>

K_seed == <<"s", "e", "e", "d">>

K_ten == <<"t", "e", "n">>

K_hai0 == <<"h", "a", "i", "0">>

K_hai1 == <<"h", "a", "i", "1">>

K_hai2 == <<"h", "a", "i", "2">>

K_hai3 == <<"h", "a", "i", "3">>

K_who == <<"w", "h", "o">>

K_meld == <<"m", "e", "l", "d">>

K_hai == <<"h", "a", "i">>

K_step == <<"s", "t", "e", "p">>

K_fromWho == <<"f", "r", "o", "m", "W", "h", "o">>

K_yaku == <<"y", "a", "k", "u">>

K_sc == <<"s", "c">>

(***************************************************************************)
(* An element is [name, attrs]; attrs is what element.attributes() yields, *)
(* in order: [key, value, bad], where bad = TRUE stands for an item the    *)
(* iterator returns as Err (the builders turn it into ParserError::Attr).  *)
(* Option values: None is <<>>, Some(x) is <<x>>.                          *)
(***************************************************************************)
RECURSIVE AttrLoop(_, _, _)
\* for attr in element.attributes() { let attr = attr.map_err(Attr)?; ... }
\* Step(acc, attr) is the loop body; acc.err # "none" is the `?` return.
AttrLoop(Step(_, _), acc, attrs) ==
    IF attrs = <<>> THEN acc
    ELSE IF Head(attrs).bad THEN [acc EXCEPT !.err = "Attr"]
    ELSE LET r == Step(acc, Head(attrs))
         IN  IF r.err # "none" THEN r ELSE AttrLoop(Step, r, Tail(attrs))

RECURSIVE FillFieldsLenient(_, _, _, _, _)
\* A field that does not parse keeps its default and the loop goes on.
FillFieldsLenient(arr, parts, i, lo, hi) ==
    IF i > Len(parts) \/ i > 4 THEN [err |-> "none", arr |-> arr]
    ELSE LET v == ParseInRange(parts[i], lo, hi)
         IN  FillFieldsLenient(IF v = <<>> THEN arr ELSE [arr EXCEPT ![i] = v[1]],
                               parts, i + 1, lo, hi)

RECURSIVE FillFields(_, _, _, _, _)
\* for (i, &part) in parts.iter().enumerate().take(4) { arr[i] = part.parse()?; }
FillFields(arr, parts, i, lo, hi) ==
    IF i > Len(parts) \/ i > 4 THEN [err |-> "none", arr |-> arr]
    ELSE LET v == ParseInRange(parts[i], lo, hi)
         IN  IF v = <<>> THEN [err |-> "ParseInt", arr |-> arr]
             ELSE FillFields([arr EXCEPT ![i] = v[1]], parts, i + 1, lo, hi)

\* key.chars().last().unwrap().to_digit(10).unwrap() as usize, as a 1-based index
SeatOfKey(key) == DigitVal(key[Len(key)]) + 1

(***************************************************************************)
(* percent_decode: %XX becomes the byte XX; the bytes are then read as     *)
(* UTF-8, lossily.  The model decodes the printable ASCII letters it uses  *)
(* and replaces every other escaped byte by the replacement character.     *)
(***************************************************************************)
HexChars == <<"0", "1", "2", "3", "4", "5", "6", "7", "8", "9",
              "A", "B", "C", "D", "E", "F">>

IsHex(c) == \E i \in 1..16 : HexChars[i] = c

HexVal(c) == (CHOOSE i \in 1..16 : HexChars[i] = c) - 1

AsciiUpper == <<"A", "B", "C", "D", "E", "F", "G", "H", "I", "J", "K", "L", "M",
                "N", "O", "P", "Q", "R", "S", "T", "U", "V", "W", "X", "Y", "Z">>

ByteChar(b) == IF b >= 65 /\ b <= 90 THEN AsciiUpper[b - 64] ELSE "?"

RECURSIVE percent_decode(_)
percent_decode(input) ==
    IF input = <<>> THEN <<>>
    ELSE IF Head(input) = "%" /\ Len(input) >= 3 /\ IsHex(input[2]) /\ IsHex(input[3])
         THEN <<ByteChar(16 * HexVal(input[2]) + HexVal(input[3]))>>
                  \o percent_decode(SubSeq(input, 4, Len(input)))
    ELSE <<Head(input)>> \o percent_decode(Tail(input))

(***************************************************************************)
(* Game-metadata builders.                                                 *)
(***************************************************************************)
MjloggmAttr(acc, attr) ==
    IF attr.key = K_ver THEN [acc EXCEPT !.mjlog_version = attr.value] ELSE acc

\* Returns [err, mjlog_version].
parse_mjloggm(version, element) ==
    AttrLoop(MjloggmAttr, [err |-> "none", mjlog_version |-> version], element.attrs)

GoAttr(acc, attr) ==
    IF attr.key = K_type
    THEN LET v == ParseU32(attr.value)
         IN  IF v = <<>> THEN [acc EXCEPT !.err = "ParseInt"]
             ELSE [acc EXCEPT !.type_flags = v[1]]
    ELSE IF attr.key = K_lobby
    THEN LET v == ParseU32(attr.value)
         IN  IF v = <<>> THEN [acc EXCEPT !.err = "ParseInt"]
             ELSE [acc EXCEPT !.lobby_id = IF v[1] = 0 THEN <<>> ELSE v]
    ELSE acc

\* Returns [err, rules]: the new value of self.rules.
parse_go(rules, element) ==
    LET r == AttrLoop(GoAttr, [err |-> "none", type_flags |-> 0, lobby_id |-> <<>>],
                      element.attrs)
    IN  IF r.err # "none" THEN [err |-> r.err, rules |-> rules]
        ELSE [err |-> "none",
              rules |-> <<[type_flags |-> r.type_flags, lobby_id |-> r.lobby_id]>>]

RECURSIVE FillText(_, _, _)
\* for (i, &part) in parts.iter().enumerate().take(4) { genders[i] = part.to_string(); }
FillText(arr, parts, i) ==
    IF i > Len(parts) \/ i > 4 THEN arr
    ELSE FillText([arr EXCEPT ![i] = parts[i]], parts, i + 1)

UnAttr(acc, attr) ==
    IF attr.key \in {K_n0, K_n1, K_n2, K_n3}
    THEN [acc EXCEPT !.names[SeatOfKey(attr.key)] = percent_decode(attr.value)]
    ELSE IF attr.key = K_dan
    THEN LET r == FillFields(acc.dans, Split(attr.value), 1, 0, I32_MAX)
         IN  [acc EXCEPT !.err = r.err, !.dans = r.arr]
    ELSE IF attr.key = K_rate
    THEN LET r == FillFields(acc.rates, Split(attr.value), 1, 0, I32_MAX)
         IN  [acc EXCEPT !.err = r.err, !.rates = r.arr]
    ELSE IF attr.key = K_sx
    THEN [acc EXCEPT !.genders = FillText(acc.genders, Split(attr.value), 1)]
    ELSE acc

\* Returns [err, players]: the new value of self.players.
parse_un(players, element) ==
    LET r == AttrLoop(UnAttr,
                      [err |-> "none",
                       names |-> <<<<>>, <<>>, <<>>, <<>>>>,
                       dans |-> <<0, 0, 0, 0>>,
                       rates |-> <<0, 0, 0, 0>>,
                       genders |-> <<<<>>, <<>>, <<>>, <<>>>>],
                      element.attrs)
    IN  IF r.err # "none" THEN [err |-> r.err, players |-> players]
        ELSE [err |-> "none",
              players |-> players \o
                  [i \in 1..4 |-> [seat |-> i - 1,
                                   player_id |-> r.names[i],
                                   rank |-> r.dans[i],
                                   rate |-> r.rates[i],
                                   gender |-> r.genders[i]]]]

TaikyokuAttr(acc, attr) ==
    IF attr.key = K_oya /\ ParseU8(attr.value) = <<>>
    THEN [acc EXCEPT !.err = "ParseInt"]
    ELSE acc

\* Returns [err]: the tag changes no field.
parse_taikyoku(element) == AttrLoop(TaikyokuAttr, [err |-> "none"], element.attrs)

(***************************************************************************)
(* parse_init: the INIT tag seals the open round and opens the next.       *)
(***************************************************************************)
RoundLabel == <<"R", "o", "u", "n", "d", " ">>

InitAttr(acc, attr) ==
    IF attr.key = K_seed THEN [acc EXCEPT !.seed = attr.value]
    ELSE IF attr.key = K_ten THEN [acc EXCEPT !.ten = attr.value]
    ELSE IF attr.key = K_oya
    THEN LET v == ParseU8(attr.value)
         IN  IF v = <<>> THEN [acc EXCEPT !.err = "ParseInt"]
             ELSE [acc EXCEPT !.oya = v[1]]
    ELSE IF attr.key \in {K_hai0, K_hai1, K_hai2, K_hai3}
    THEN [acc EXCEPT !.hands[SeatOfKey(attr.key)] = attr.value]
    ELSE acc

RECURSIVE ParseAll(_, _, _, _, _)
\* parts[0].parse()?, parts[1].parse()?, ... for the first n fields, in order.
ParseAll(parts, n, lo, hi, out) ==
    IF Len(out) = n THEN [err |-> "none", vals |-> out]
    ELSE LET v == ParseInRange(parts[Len(out) + 1], lo, hi)
         IN  IF v = <<>> THEN [err |-> "ParseInt", vals |-> out]
             ELSE ParseAll(parts, n, lo, hi, Append(out, v[1]))

RECURSIVE ParseHandsPartial(_, _)
\* The hands read before the first hand that does not parse are kept and
\* the others are left out.
ParseHandsPartial(hands, out) ==
    IF Len(out) = Len(hands) THEN [err |-> "none", hands |-> out]
    ELSE LET r == parse_tile_list(hands[Len(out) + 1])
         IN  IF r.err # "none" THEN [err |-> "none", hands |-> out]
             ELSE ParseHandsPartial(hands, Append(out, r.tiles))

RECURSIVE ParseHands(_, _)
\* for hand in &hands { initial_hands.push(parse_tile_list(hand)?); }
ParseHands(hands, out) ==
    IF Len(out) = Len(hands) THEN [err |-> "none", hands |-> out]
    ELSE LET r == parse_tile_list(hands[Len(out) + 1])
         IN  IF r.err # "none" THEN [err |-> r.err, hands |-> out]
             ELSE ParseHands(hands, Append(out, r.tiles))

\* The open round is pushed to the round list twice.
SealOpenRoundTwice(rounds, current_round) == rounds \o current_round \o current_round

\* The round list after the open round, if any, is pushed to it, dropped.
SealDropsOpenRound(rounds, current_round) == rounds

\* if let Some(round) = self.current_round.take() { self.rounds.push(round); }
SealOpenRound(rounds, current_round) == rounds \o current_round

\* A short list padded with "0" fields instead of rejected.
PaddedFields(parts, n) ==
    [err |-> "none",
     parts |-> parts \o [i \in 1..(IF Len(parts) < n THEN n - Len(parts) ELSE 0)
                             |-> <<"0">>]]

\* if parts.len() < n { return Err(ParserError::invalid_format(..)); }
CheckedFields(parts, n) ==
    IF Len(parts) < n THEN [err |-> "InvalidFormat", parts |-> parts]
    ELSE [err |-> "none", parts |-> parts]

\* The label counts the sealed rounds and not the round that is opened.
RoundIdFromZero(sealed) == RoundLabel \o Decimal(Len(sealed))

\* let round_id = format!("Round {}", self.rounds.len() + 1);
RoundId(sealed) == RoundLabel \o Decimal(Len(sealed) + 1)

\* Returns [err, rounds, current_round].
parse_init(rounds, current_round, element) ==
    LET fail(e) == [err |-> e, rounds |-> rounds, current_round |-> current_round]
        a == AttrLoop(InitAttr,
                      [err |-> "none", seed |-> <<>>, ten |-> <<>>, oya |-> 0,
                       hands |-> <<<<>>, <<>>, <<>>, <<>>>>],
                      element.attrs)
        seed_parts == CheckedFields(Split(a.seed), 6)
        seed == ParseAll(seed_parts.parts, 6, 0, I32_MAX, <<>>)
        ten_parts == CheckedFields(Split(a.ten), 4)
        ten == ParseAll(ten_parts.parts, 4, 0 - I32_MAX, I32_MAX, <<>>)
        hands == ParseHands(a.hands, <<>>)
        sealed == SealOpenRound(rounds, current_round)
    IN  IF a.err # "none" THEN fail(a.err)
        ELSE IF seed_parts.err # "none" THEN fail(seed_parts.err)
        ELSE IF seed.err # "none" THEN fail(seed.err)
        ELSE IF ten_parts.err # "none" THEN fail(ten_parts.err)
        ELSE IF ten.err # "none" THEN fail(ten.err)
        ELSE IF hands.err # "none" THEN fail(hands.err)
        ELSE [err |-> "none",
              rounds |-> sealed,
              current_round |->
                  <<[round_id |-> RoundId(sealed),
                     dealer_seat |-> a.oya,
                     init |-> [round_number |-> seed.vals[1],
                               honba |-> seed.vals[2],
                               kyoutaku |-> seed.vals[3],
                               dice |-> <<seed.vals[4], seed.vals[5]>>,
                               dora_indicator |-> seed.vals[6],
                               initial_scores |-> ten.vals,
                               initial_hands |-> hands.hands],
                     events |-> <<>>]>>]

(***************************************************************************)
(* Gameplay builders.  Each returns [err, current_round].                  *)
(***************************************************************************)
\* The event put in front of the round's events.
PushEventFirst(current_round, event) ==
    IF current_round = <<>> THEN current_round
    ELSE <<[current_round[1] EXCEPT !.events = <<event>> \o @]>>

\* round.events.push(event) on the open round; nothing when no round is open.
PushEvent(current_round, event) ==
    IF current_round = <<>> THEN current_round
    ELSE <<[current_round[1] EXCEPT !.events = Append(@, event)]>>

DrawSeat(c) == CASE c = "T" -> 0 [] c = "U" -> 1 [] c = "V" -> 2 [] c = "W" -> 3
                 [] OTHER -> -1

DiscardSeat(c) == CASE c = "D" -> 0 [] c = "E" -> 1 [] c = "F" -> 2 [] c = "G" -> 3
                    [] OTHER -> -1

RECURSIVE UnnamedTileId(_)
\* The first loop of parse_draw / parse_discard: skip the named attributes,
\* parse the first unnamed one and stop.  Returns [err, tile_id].
UnnamedTileId(attrs) ==
    IF attrs = <<>> THEN [err |-> "none", tile_id |-> <<>>]
    ELSE IF Head(attrs).bad THEN [err |-> "Attr", tile_id |-> <<>>]
    ELSE IF Head(attrs).key # <<>> THEN UnnamedTileId(Tail(attrs))
    ELSE LET v == ParseU32(Head(attrs).value)
         IN  IF v = <<>> THEN [err |-> "ParseInt", tile_id |-> <<>>]
             ELSE [err |-> "none", tile_id |-> v]

\* Tile id 0 stands in when the tag name has no numeric suffix.
SuffixTileIdOrZero(tag_name) ==
    IF Len(tag_name) > 1 /\ ParseU32(Tail(tag_name)) # <<>>
    THEN ParseU32(Tail(tag_name)) ELSE <<0>>

\* if tag_name.len() > 1 { if let Ok(id) = tag_name[1..].parse() { ... } }
SuffixTileId(tag_name) ==
    IF Len(tag_name) > 1 THEN ParseU32(Tail(tag_name)) ELSE <<>>

\* Returns [err, tile_id] for an element seen while a round is open.
TileIdOf(element) ==
    LET u == UnnamedTileId(element.attrs)
    IN  IF u.err # "none" \/ u.tile_id # <<>> THEN u
        ELSE [err |-> "none", tile_id |-> SuffixTileId(element.name)]

parse_draw(current_round, element) ==
    LET seat == IF element.name = <<>> THEN -1 ELSE DrawSeat(Head(element.name))
        t == TileIdOf(element)
    IN  IF seat < 0 THEN [err |-> "InvalidFormat", current_round |-> current_round]
        ELSE IF current_round = <<>> THEN [err |-> "none", current_round |-> current_round]
        ELSE IF t.err # "none" THEN [err |-> t.err, current_round |-> current_round]
        ELSE IF t.tile_id = <<>> THEN [err |-> "none", current_round |-> current_round]
        ELSE [err |-> "none",
              current_round |->
                  PushEvent(current_round,
                            [type |-> "draw", seat |-> seat,
                             tile |-> tile_id_to_string(t.tile_id[1])])]

parse_discard(current_round, element) ==
    LET seat == IF element.name = <<>> THEN -1 ELSE DiscardSeat(Head(element.name))
        t == TileIdOf(element)
    IN  IF seat < 0 THEN [err |-> "InvalidFormat", current_round |-> current_round]
        ELSE IF current_round = <<>> THEN [err |-> "none", current_round |-> current_round]
        ELSE IF t.err # "none" THEN [err |-> t.err, current_round |-> current_round]
        ELSE IF t.tile_id = <<>> THEN [err |-> "none", current_round |-> current_round]
        ELSE [err |-> "none",
              current_round |->
                  PushEvent(current_round,
                            [type |-> "discard", seat |-> seat,
                             tile |-> tile_id_to_string(t.tile_id[1]),
                             is_riichi |-> FALSE])]

\* The meld value parsed as a number, as its decoding would need.
NakiAttrParsesMeld(acc, attr) ==
    IF attr.key = K_who
    THEN LET v == ParseU8(attr.value)
         IN  IF v = <<>> THEN [acc EXCEPT !.err = "ParseInt"]
             ELSE [acc EXCEPT !.who = v[1]]
    ELSE IF attr.key = K_meld
    THEN IF ParseU32(attr.value) = <<>> THEN [acc EXCEPT !.err = "ParseInt"]
         ELSE [acc EXCEPT !.meld = attr.value]
    ELSE acc

NakiAttr(acc, attr) ==
    IF attr.key = K_who
    THEN LET v == ParseU8(attr.value)
         IN  IF v = <<>> THEN [acc EXCEPT !.err = "ParseInt"]
             ELSE [acc EXCEPT !.who = v[1]]
    ELSE IF attr.key = K_meld THEN [acc EXCEPT !.meld = attr.value]
    ELSE acc

PlaceholderTiles == << <<"1", "m">>, <<"1", "m">>, <<"1", "m">> >>

parse_naki(current_round, element) ==
    LET a == AttrLoop(NakiAttr, [err |-> "none", who |-> 0, meld |-> <<>>],
                      element.attrs)
    IN  IF a.err # "none" THEN [err |-> a.err, current_round |-> current_round]
        ELSE [err |-> "none",
              current_round |->
                  PushEvent(current_round,
                            [type |-> "pon", who |-> a.who,
                             tiles |-> PlaceholderTiles, from |-> 0])]

DoraAttr(acc, attr) ==
    IF attr.key = K_hai
    THEN LET v == ParseU32(attr.value)
         IN  IF v = <<>> THEN [acc EXCEPT !.err = "ParseInt"]
             ELSE [acc EXCEPT !.current_round =
                       PushEvent(@, [type |-> "dora",
                                     indicator |-> tile_id_to_string(v[1])])]
    ELSE acc

\* The event is pushed inside the attribute loop, once per hai attribute.
parse_dora(current_round, element) ==
    AttrLoop(DoraAttr, [err |-> "none", current_round |-> current_round],
             element.attrs)

\* The step attribute left unread: every event keeps the default step.
ReachAttrWithoutStep(acc, attr) ==
    IF attr.key = K_who
    THEN LET v == ParseU8(attr.value)
         IN  IF v = <<>> THEN [acc EXCEPT !.err = "ParseInt"]
             ELSE [acc EXCEPT !.who = v[1]]
    ELSE IF attr.key = K_ten
    THEN LET r == FillFields(acc.scores, Split(attr.value), 1, 0 - I32_MAX, I32_MAX)
         IN  [acc EXCEPT !.err = r.err, !.scores = r.arr]
    ELSE acc

ReachAttr(acc, attr) ==
    IF attr.key = K_who
    THEN LET v == ParseU8(attr.value)
         IN  IF v = <<>> THEN [acc EXCEPT !.err = "ParseInt"]
             ELSE [acc EXCEPT !.who = v[1]]
    ELSE IF attr.key = K_step
    THEN LET v == ParseU8(attr.value)
         IN  IF v = <<>> THEN [acc EXCEPT !.err = "ParseInt"]
             ELSE [acc EXCEPT !.step = v[1]]
    ELSE IF attr.key = K_ten
    THEN LET r == FillFields(acc.scores, Split(attr.value), 1, 0 - I32_MAX, I32_MAX)
         IN  [acc EXCEPT !.err = r.err, !.scores = r.arr]
    ELSE acc

parse_reach(current_round, element) ==
    LET a == AttrLoop(ReachAttr,
                      [err |-> "none", who |-> 0, step |-> 1, scores |-> <<0, 0, 0, 0>>],
                      element.attrs)
    IN  IF a.err # "none" THEN [err |-> a.err, current_round |-> current_round]
        ELSE [err |-> "none",
              current_round |->
                  PushEvent(current_round,
                            [type |-> "reach", who |-> a.who, step |-> a.step,
                             scores |-> a.scores])]

\* The score before the event kept instead of the change.
ScBefore(before, change) == before

\* The score change of one chunk [before, change] of the sc list.
ScChange(before, change) == change

RECURSIVE ScDeltas(_, _, _)
\* for (i, chunk) in parts.chunks(2).enumerate().take(4) {
\*     if chunk.len() >= 2 { chunk[0].parse()?; scores[i] = chunk[1].parse()?; } }
ScDeltas(scores, parts, i) ==
    IF i > 4 \/ 2 * i - 1 > Len(parts) THEN [err |-> "none", arr |-> scores]
    ELSE IF 2 * i > Len(parts) THEN ScDeltas(scores, parts, i + 1)
    ELSE LET before == ParseI32(parts[2 * i - 1])
             change == ParseI32(parts[2 * i])
         IN  IF before = <<>> \/ change = <<>> THEN [err |-> "ParseInt", arr |-> scores]
             ELSE ScDeltas([scores EXCEPT ![i] = ScChange(before[1], change[1])],
                           parts, i + 1)

AgariTen(acc, parts) ==
    IF Len(parts) >= 3
    THEN LET fu == ParseU32(parts[1])
             score == ParseI32(parts[2])
             han == ParseU32(parts[3])
         IN  IF fu = <<>> \/ score = <<>> \/ han = <<>> THEN [acc EXCEPT !.err = "ParseInt"]
             ELSE [acc EXCEPT !.fu = fu[1], !.han = han[1]]
    ELSE acc

AgariAttr(acc, attr) ==
    IF attr.key = K_who
    THEN LET v == ParseU8(attr.value)
         IN  IF v = <<>> THEN [acc EXCEPT !.err = "ParseInt"]
             ELSE [acc EXCEPT !.who = v[1]]
    ELSE IF attr.key = K_fromWho
    THEN LET v == ParseU8(attr.value)
         IN  IF v = <<>> THEN [acc EXCEPT !.err = "ParseInt"]
             ELSE [acc EXCEPT !.from = v[1]]
    ELSE IF attr.key = K_ten THEN AgariTen(acc, Split(attr.value))
    ELSE IF attr.key = K_yaku
    THEN [acc EXCEPT !.yakus = Append(@, [name |-> "Unknown", value |-> 1])]
    ELSE IF attr.key = K_sc
    THEN LET r == ScDeltas(acc.scores, Split(attr.value), 1)
         IN  [acc EXCEPT !.err = r.err, !.scores = r.arr]
    ELSE acc

parse_agari(current_round, element) ==
    LET a == AttrLoop(AgariAttr,
                      [err |-> "none", who |-> 0, from |-> 0, han |-> 0, fu |-> 0,
                       yakus |-> <<>>, scores |-> <<0, 0, 0, 0>>],
                      element.attrs)
    IN  IF a.err # "none" THEN [err |-> a.err, current_round |-> current_round]
        ELSE [err |-> "none",
              current_round |->
                  PushEvent(current_round,
                            [type |-> "agari", who |-> a.who, from |-> a.from,
                             han |-> a.han, fu |-> a.fu, yakus |-> a.yakus,
                             dora_count |-> 0, scores |-> a.scores])]

\* The match without its "kan4" arm.
RyuukyokuReasonNoKan4(type_str) ==
    CASE type_str = <<"n", "m">> -> "Normal"
      [] type_str = <<"y", "a", "o", "9">> -> "Yao9"
      [] type_str = <<"k", "a", "z", "e", "4">> -> "Kaze4"
      [] type_str = <<"r", "e", "a", "c", "h", "4">> -> "Reach4"
      [] type_str = <<"r", "o", "n", "3">> -> "Ron3"
      [] OTHER -> "Normal"

RyuukyokuReason(type_str) ==
    CASE type_str = <<"n", "m">> -> "Normal"
      [] type_str = <<"y", "a", "o", "9">> -> "Yao9"
      [] type_str = <<"k", "a", "z", "e", "4">> -> "Kaze4"
      [] type_str = <<"r", "e", "a", "c", "h", "4">> -> "Reach4"
      [] type_str = <<"r", "o", "n", "3">> -> "Ron3"
      [] type_str = <<"k", "a", "n", "4">> -> "Kan4"
      [] OTHER -> "Normal"

RyuukyokuAttr(acc, attr) ==
    IF attr.key = K_type THEN [acc EXCEPT !.reason = RyuukyokuReason(attr.value)]
    ELSE IF attr.key = K_sc
    THEN LET r == ScDeltas(acc.scores, Split(attr.value), 1)
         IN  [acc EXCEPT !.err = r.err, !.scores = r.arr]
    ELSE acc

parse_ryuukyoku(current_round, element) ==
    LET a == AttrLoop(RyuukyokuAttr,
                      [err |-> "none", reason |-> "Normal", scores |-> <<0, 0, 0, 0>>],
                      element.attrs)
    IN  IF a.err # "none" THEN [err |-> a.err, current_round |-> current_round]
        ELSE [err |-> "none",
              current_round |->
                  PushEvent(current_round,
                            [type |-> "ryuukyoku", reason |-> a.reason,
                             scores |-> a.scores])]

(***************************************************************************)
(* Tag dispatch of MjlogParser::parse: exact names first, then the first   *)
(* byte of any other non-empty name.                                       *)
(***************************************************************************)
\* The first-letter rule is tried before the exact names.
DispatchLetterFirst(tag_bytes) ==
    IF tag_bytes # <<>> /\ Head(tag_bytes) \in {"T", "U", "V", "W"} THEN "draw"
    ELSE IF tag_bytes # <<>> /\ Head(tag_bytes) \in {"D", "E", "F", "G"} THEN "discard"
    ELSE CASE tag_bytes = T_mjloggm -> "mjloggm"
           [] tag_bytes = T_INIT -> "INIT"
           [] tag_bytes = T_N -> "N"
           [] tag_bytes = T_REACH -> "REACH"
           [] tag_bytes = T_AGARI -> "AGARI"
           [] tag_bytes = T_RYUUKYOKU -> "RYUUKYOKU"
           [] OTHER -> "unknown"

Dispatch(tag_bytes) ==
    CASE tag_bytes = T_mjloggm -> "mjloggm"
      [] tag_bytes = T_GO -> "GO"
      [] tag_bytes = T_UN -> "UN"
      [] tag_bytes = T_TAIKYOKU -> "TAIKYOKU"
      [] tag_bytes = T_INIT -> "INIT"
      [] tag_bytes = T_N -> "N"
      [] tag_bytes = T_DORA -> "DORA"
      [] tag_bytes = T_REACH -> "REACH"
      [] tag_bytes = T_AGARI -> "AGARI"
      [] tag_bytes = T_RYUUKYOKU -> "RYUUKYOKU"
      [] OTHER ->
            IF tag_bytes = <<>> THEN "unknown"
            ELSE IF Head(tag_bytes) \in {"T", "U", "V", "W"} THEN "draw"
            ELSE IF Head(tag_bytes) \in {"D", "E", "F", "G"} THEN "discard"
            ELSE "unknown"

(***************************************************************************)
(* One turn of the match of MjlogParser::parse as a function: the fields   *)
(* of the parser, [mjlog_version, rules, players, rounds, current_round,   *)
(* err], after the builder that Dispatch picks for the element returned.   *)
(***************************************************************************)
Handled(self, element) ==
    LET h == Dispatch(element.name)
        built(r) == [self EXCEPT !.err = r.err, !.current_round = r.current_round]
    IN  CASE h = "mjloggm" ->
                 LET r == parse_mjloggm(self.mjlog_version, element)
                 IN  [self EXCEPT !.err = r.err, !.mjlog_version = r.mjlog_version]
          [] h = "GO" ->
                 LET r == parse_go(self.rules, element)
                 IN  [self EXCEPT !.err = r.err, !.rules = r.rules]
          [] h = "UN" ->
                 LET r == parse_un(self.players, element)
                 IN  [self EXCEPT !.err = r.err, !.players = r.players]
          [] h = "TAIKYOKU" -> [self EXCEPT !.err = parse_taikyoku(element).err]
          [] h = "INIT" ->
                 LET r == parse_init(self.rounds, self.current_round, element)
                 IN  [self EXCEPT !.err = r.err, !.rounds = r.rounds,
                                  !.current_round = r.current_round]
          [] h = "N" -> built(parse_naki(self.current_round, element))
          [] h = "DORA" -> built(parse_dora(self.current_round, element))
          [] h = "REACH" -> built(parse_reach(self.current_round, element))
          [] h = "AGARI" -> built(parse_agari(self.current_round, element))
          [] h = "RYUUKYOKU" -> built(parse_ryuukyoku(self.current_round, element))
          [] h = "draw" -> built(parse_draw(self.current_round, element))
          [] h = "discard" -> built(parse_discard(self.current_round, element))
          [] OTHER -> [self EXCEPT !.err = "none"]

(***************************************************************************)
(* The tags the reader may deliver.  Values are written as the text of the *)
(* record: Nums(<<250, 250>>) is the text "250,250".                       *)
(***************************************************************************)
Num(n) == IF n < 0 THEN <<"-">> \o Decimal(0 - n) ELSE Decimal(n)

RECURSIVE Join(_)
Join(fields) ==
    IF fields = <<>> THEN <<>>
    ELSE IF Len(fields) = 1 THEN fields[1]
    ELSE fields[1] \o <<",">> \o Join(Tail(fields))

Nums(ns) == Join([i \in 1..Len(ns) |-> Num(ns[i])])

NotANumber == <<"x">>

Attr(k, v) == [key |-> k, value |-> v, bad |-> FALSE]

\* An item for which the attribute iterator returns Err (a duplicated key,
\* an unquoted value, a key without '=').
BadAttr == [key |-> <<>>, value |-> <<>>, bad |-> TRUE]

\* An attribute with an empty key.
Unnamed(v) == Attr(<<>>, v)

Extra == Attr(<<"e", "x", "t", "r", "a">>, <<"a", "t", "t", "r">>)

Element(name, attrs) == [name |-> name, attrs |-> attrs]

MjloggmVer == Element(T_mjloggm, <<Attr(K_ver, <<"2", ".", "3">>)>>)

GoLobby == Element(T_GO, <<Attr(K_type, Num(169)), Attr(K_lobby, Num(1))>>)

UnFull ==
    Element(T_UN, <<Attr(K_n0, <<"%", "4", "1", "b">>), Attr(K_n1, <<"P", "2">>),
                    Attr(K_dan, Nums(<<1, 2, 3, 4>>)),
                    Attr(K_rate, Nums(<<1500, 1600, 1700, 1800>>)),
                    Attr(K_sx, <<"M", ",", "F", ",", "M", ",", "F">>)>>)

UnShort == Element(T_UN, <<Attr(K_dan, Nums(<<1, 2>>)), Attr(K_rate, Nums(<<1500>>))>>)

UnBadDan == Element(T_UN, <<Attr(K_dan, Join(<<Num(1), NotANumber>>))>>)

TaikyokuOya == Element(T_TAIKYOKU, <<Attr(K_oya, Num(0))>>)

GoodSeed == Attr(K_seed, Nums(<<0, 0, 0, 1, 2, 52>>))

ShortSeed == Attr(K_seed, Nums(<<0, 0>>))

GoodTen == Attr(K_ten, Nums(<<250, 250, 250, 250>>))

ShortTen == Attr(K_ten, Nums(<<250, 250>>))

InitA ==
    Element(T_INIT, <<GoodSeed, GoodTen, Attr(K_oya, Num(0)),
                      Attr(K_hai0, Nums(<<0, 4>>)), Attr(K_hai1, Nums(<<37>>)),
                      Attr(K_hai2, Nums(<<110>>))>>)

InitB ==
    Element(T_INIT, <<Attr(K_seed, Nums(<<1, 0, 0, 3, 4, 8>>)),
                      Attr(K_ten, Nums(<<240, 260, 250, 250>>)),
                      Attr(K_oya, Num(1))>>)

InitShortSeed == Element(T_INIT, <<ShortSeed, GoodTen, Attr(K_oya, Num(0))>>)

InitShortTen == Element(T_INIT, <<GoodSeed, ShortTen, Attr(K_oya, Num(0))>>)

InitNoTen == Element(T_INIT, <<GoodSeed, Attr(K_oya, Num(0))>>)

InitNoSeed == Element(T_INIT, <<GoodTen, Attr(K_oya, Num(0))>>)

InitShortSeedBadOya == Element(T_INIT, <<ShortSeed, GoodTen, Attr(K_oya, NotANumber)>>)

InitBadSeedShortTen ==
    Element(T_INIT, <<Attr(K_seed, Join(<<Num(0), Num(0), Num(0), Num(1), Num(2),
                                          NotANumber>>)),
                      ShortTen>>)

InitBadTen ==
    Element(T_INIT, <<GoodSeed,
                      Attr(K_ten, Join(<<Num(250), NotANumber, Num(250), Num(250)>>))>>)

InitBadHand ==
    Element(T_INIT, <<GoodSeed, GoodTen, Attr(K_hai0, Join(<<Num(0), NotANumber>>))>>)

InitOya7 == Element(T_INIT, <<GoodSeed, GoodTen, Attr(K_oya, Num(7))>>)

NakiWho == Element(T_N, <<Attr(K_who, Num(1)), Attr(K_meld, Num(12345))>>)

NakiOther == Element(T_N, <<Attr(K_who, Num(2)), Attr(K_meld, Num(51275))>>)

NakiNoMeld == Element(T_N, <<Attr(K_who, Num(3))>>)

NakiTextMeld == Element(T_N, <<Attr(K_who, Num(1)), Attr(K_meld, NotANumber)>>)

\* The meld value under the key m, which parse_naki does not match.
NakiM == Element(T_N, <<Attr(K_who, Num(2)), Attr(<<"m">>, Num(12345))>>)

NakiBadWho == Element(T_N, <<Attr(K_who, NotANumber)>>)

DoraHai == Element(T_DORA, <<Attr(K_hai, Num(56))>>)

DoraBadHai == Element(T_DORA, <<Attr(K_hai, NotANumber)>>)

ReachStep1 ==
    Element(T_REACH, <<Attr(K_who, Num(0)), Attr(K_step, Num(1)),
                       Attr(K_ten, Nums(<<240, 250, 260, 270>>))>>)

ReachStep2 == Element(T_REACH, <<Attr(K_who, Num(2)), Attr(K_step, Num(2))>>)

ReachShortTen ==
    Element(T_REACH, <<Attr(K_who, Num(0)), Attr(K_step, Num(1)),
                       Attr(K_ten, Nums(<<240, 250>>))>>)

ReachBadTen ==
    Element(T_REACH, <<Attr(K_who, Num(0)), Attr(K_ten, Join(<<Num(240), NotANumber>>))>>)

ReachBadStep == Element(T_REACH, <<Attr(K_who, Num(0)), Attr(K_step, NotANumber)>>)

ReachWho7 == Element(T_REACH, <<Attr(K_who, Num(7)), Attr(K_step, Num(1))>>)

AgariWho5 ==
    Element(T_AGARI, <<Attr(K_who, Num(5)), Attr(K_fromWho, Num(4)),
                       Attr(K_ten, Nums(<<30, 1000, 2>>))>>)

AgariFull ==
    Element(T_AGARI, <<Attr(K_who, Num(0)), Attr(K_fromWho, Num(1)),
                       Attr(K_ten, Nums(<<30, 1000, 2>>)),
                       Attr(K_yaku, Nums(<<1, 1>>)),
                       Attr(K_sc, Nums(<<240, 10, 250, -20, 250, 30, 260, -40>>))>>)

AgariShort ==
    Element(T_AGARI, <<Attr(K_who, Num(3)), Attr(K_ten, Nums(<<30, 1000>>)),
                       Attr(K_sc, Nums(<<240, 10, 250>>))>>)

AgariBadSc ==
    Element(T_AGARI, <<Attr(K_who, Num(0)), Attr(K_sc, Join(<<Num(240), NotANumber>>))>>)

RyuukyokuFull ==
    Element(T_RYUUKYOKU, <<Attr(K_sc, Nums(<<250, 15, 260, -15, 270, 5, 280, -5>>)),
                           Attr(K_type, <<"y", "a", "o", "9">>)>>)

RyuukyokuShort ==
    Element(T_RYUUKYOKU, <<Attr(K_sc, Nums(<<250, 15>>)),
                           Attr(K_type, <<"z", "z", "z">>)>>)

\* The type texts of the RYUUKYOKU tags below: the six codes of the match, a
\* code in capitals, the empty text and a text that is no code.
TypeTexts ==
    {<<"n", "m">>, <<"y", "a", "o", "9">>, <<"k", "a", "z", "e", "4">>,
     <<"r", "e", "a", "c", "h", "4">>, <<"r", "o", "n", "3">>, <<"k", "a", "n", "4">>,
     <<"K", "A", "N", "4">>, <<>>, <<"r", "o", "n", "4">>}

RyuukyokuOfType(t) == Element(T_RYUUKYOKU, <<Attr(K_type, t)>>)

RyuukyokuNoType == Element(T_RYUUKYOKU, <<Extra>>)

RyuukyokuBadBefore ==
    Element(T_RYUUKYOKU, <<Attr(K_sc, Join(<<NotANumber, Num(15)>>))>>)

DrawT52 == Element(<<"T", "5", "2">>, <<>>)

DrawBare == Element(<<"U">>, <<>>)

DrawNamedAttr == Element(<<"V", "6", "0">>, <<Extra>>)

DrawUnnamed == Element(<<"W", "5", "2">>, <<Extra, Unnamed(Num(8))>>)

\* Names that are no draw or discard tag of the format (a seat letter and a
\* tile id) but begin with a seat letter.
OtherT == Element(<<"T", "x">>, <<Extra>>)

OtherTBadAttr == Element(<<"T", "x">>, <<BadAttr>>)

DrawBadUnnamed == Element(<<"T">>, <<Unnamed(NotANumber)>>)

DiscardD0 == Element(<<"D", "0">>, <<>>)

DiscardBare == Element(<<"E">>, <<>>)

DiscardUnnamed == Element(<<"G", "3">>, <<Unnamed(Num(8))>>)

OtherFBadAttr == Element(<<"F", "x">>, <<BadAttr>>)

DiscardBadUnnamed == Element(<<"D">>, <<Unnamed(NotANumber)>>)

OtherX == Element(<<"X", "Y", "Z">>, <<Extra>>)

OtherXBadAttr == Element(<<"X", "Y", "Z">>, <<BadAttr>>)

MjloggmTags == {MjloggmVer}

GoTags == {GoLobby}

UnTags == {UnFull, UnShort, UnBadDan}

TaikyokuTags == {TaikyokuOya}

InitTags == {InitA, InitB, InitShortSeed, InitShortTen, InitNoTen, InitNoSeed,
             InitShortSeedBadOya, InitBadSeedShortTen, InitBadTen, InitBadHand,
             InitOya7}

NakiTags == {NakiWho, NakiOther, NakiNoMeld, NakiTextMeld, NakiM, NakiBadWho}

DoraTags == {DoraHai, DoraBadHai}

ReachTags == {ReachStep1, ReachStep2, ReachShortTen, ReachBadTen, ReachBadStep,
              ReachWho7}

AgariTags == {AgariFull, AgariShort, AgariBadSc, AgariWho5}

RyuukyokuTags ==
    {RyuukyokuFull, RyuukyokuShort, RyuukyokuBadBefore, RyuukyokuNoType}
        \cup {RyuukyokuOfType(t) : t \in TypeTexts}

DrawTags == {DrawT52, DrawBare, DrawNamedAttr, DrawUnnamed, OtherT, OtherTBadAttr,
             DrawBadUnnamed}

DiscardTags == {DiscardD0, DiscardBare, DiscardUnnamed, OtherFBadAttr,
                DiscardBadUnnamed}

UnknownTags == {OtherX, OtherXBadAttr}

Tags == MjloggmTags \cup GoTags \cup UnTags \cup TaikyokuTags \cup InitTags
            \cup NakiTags \cup DoraTags \cup ReachTags \cup AgariTags
            \cup RyuukyokuTags \cup DrawTags \cup DiscardTags \cup UnknownTags

\* The tags of the longer streams: two INIT tags that open a round and one
\* that fails, and tags that append an event or none.
RoundTags == {InitA, InitB, InitShortSeed, DoraHai, ReachStep2, DrawT52, DiscardD0,
              OtherX}

\* The tags of the streams of events: an INIT tag, N tags of several meld
\* values, the two REACH tags of a declaration, and RYUUKYOKU tags of every
\* type text.
EventTags ==
    {InitA, NakiWho, NakiOther, NakiNoMeld, NakiTextMeld, NakiM, ReachStep1,
     ReachStep2, RyuukyokuFull, RyuukyokuShort, RyuukyokuNoType}
        \cup {RyuukyokuOfType(t) : t \in TypeTexts}

\* The tags that go through the match as a whole: one of each exact name,
\* tags of the first-letter rule, a failing tag and an unknown tag.
DispatchTags == {MjloggmVer, GoLobby, UnFull, TaikyokuOya, InitA, NakiWho, DoraHai,
                 ReachStep1, AgariFull, RyuukyokuFull, DrawT52, DiscardD0, OtherT,
                 InitShortSeed, OtherX}

\* The tags of the two calls that run together.
CallTags == {MjloggmVer, InitA, InitShortSeed, DrawT52}

\* The tags of the documents that parse_mjlog is followed through from its
\* first line.
InputTags == {MjloggmVer, UnFull, OtherX}

\* uuid::Uuid::new_v4(): some identifier, of no concern to the parse.
GameIds == {"uuid"}

(***************************************************************************)
(* The bytes parse_mjlog is given.  A buffer is a sequence of runs         *)
(* [kind, n] of n > 0 bytes of one kind: "text" bytes are Shift_JIS text,  *)
(* markup included; "malformed" bytes are bytes that are no Shift_JIS in   *)
(* any position and start no byte order mark (0xFD, 0xA0); "bom" is the    *)
(* UTF-8 byte order mark.  Decoded text is a sequence of runs of "chars"   *)
(* and of "replacement" characters (U+FFFD).                               *)
(***************************************************************************)
Run(kind, n) == [kind |-> kind, n |-> n]

RECURSIVE Size(_)
\* buf.len(), content.len()
Size(runs) == IF runs = <<>> THEN 0 ELSE Head(runs).n + Size(Tail(runs))

RECURSIVE Take(_, _)
\* reader.take(limit) followed by read_to_end: the first limit bytes.
Take(runs, limit) ==
    IF runs = <<>> \/ limit = 0 THEN <<>>
    ELSE IF Head(runs).n <= limit
    THEN <<Head(runs)>> \o Take(Tail(runs), limit - Head(runs).n)
    ELSE <<Run(Head(runs).kind, limit)>>

\* if buf.len() >= MAX_FILE_SIZE
TooLarge(len) == len >= MAX_FILE_SIZE

\* The text of SHIFT_JIS.decode(&buf): the byte order mark is removed, text
\* becomes characters and every malformed byte becomes U+FFFD.
DecodedRuns(buf) ==
    LET kept == SelectSeq(buf, LAMBDA r : r.kind # "bom")
    IN  [i \in 1..Len(kept) |->
            Run(IF kept[i].kind = "malformed" THEN "replacement" ELSE "chars",
                kept[i].n)]

\* let (content, encoding_used, had_errors) = SHIFT_JIS.decode(&buf);
Decode(buf) ==
    [content |-> DecodedRuns(buf),
     encoding_used |-> IF buf # <<>> /\ Head(buf).kind = "bom" /\ Head(buf).n = 3
                       THEN "UTF_8" ELSE "SHIFT_JIS",
     had_errors |-> \E i \in 1..Len(buf) : buf[i].kind = "malformed"]

\* The readers parse_mjlog is called with: a small document; documents of
\* one byte less than MAX_FILE_SIZE, of MAX_FILE_SIZE and of one byte more;
\* a document with three malformed bytes in it; three malformed bytes and
\* nothing else; no byte at all; a byte order mark alone and one followed by
\* malformed bytes.
SmallDocument == <<Run("text", 64)>>

Readers ==
    {SmallDocument,
     <<Run("text", MAX_FILE_SIZE - 1)>>,
     <<Run("text", MAX_FILE_SIZE)>>,
     <<Run("text", MAX_FILE_SIZE + 1)>>,
     <<Run("text", 60), Run("malformed", 3), Run("text", 11)>>,
     <<Run("malformed", 3)>>,
     <<>>,
     <<Run("bom", 3)>>,
     <<Run("bom", 3), Run("malformed", 3)>>}

\* The reader has tags to deliver when the text has characters.
HasMarkup(text) == \E i \in 1..Len(text) : text[i].kind = "chars"

\* The value of call while no function of the tile codec has been called.
NoCall == [fn |-> "none"]

\* The value of writer when parse_mjlog is called by itself: it writes
\* nothing.
NoWriter == [fn |-> "parse_mjlog"]

\* The value of peer when there is no second call.
NoPeer == [pc |-> "none"]

\* What parse_file and parse_stream write to.  written tells what the writer
\* was given: "nothing" or "document".  For parse_file the writer is the file
\* at output_path, before is what was at that path when parse_file was called
\* ("absent", or "previous" for a file with some content) and file is what is
\* there now: "absent", "previous", "empty" or "document".
StreamWriter == [fn |-> "parse_stream", written |-> "nothing"]

FileWriter(before) ==
    [fn |-> "parse_file", written |-> "nothing", before |-> before, file |-> before]

\* The readers of the two calls that run together: a small document, one of
\* MAX_FILE_SIZE bytes, and malformed bytes only.
CallReaders == {SmallDocument, <<Run("text", MAX_FILE_SIZE)>>, <<Run("malformed", 3)>>}

\* A call of parse_mjlog that has not taken its first step.
FreshCall(r) ==
    [reader |-> r, content |-> <<>>, mjlog_version |-> <<>>, game_id |-> "",
     rules |-> <<>>, players |-> <<>>, rounds |-> <<>>, current_round |-> <<>>,
     pc |-> "reading", err |-> "none", output |-> <<>>, consumed |-> <<>>]

\* The ids given to tile_id_to_string: every id of a tile, the first ids
\* past the tiles, and the two ids the tests of tile.rs use for the fallback.
TileArgs == 0..MaxTileId \cup {1000, 9999}

\* Texts given to tile_string_to_id that name no tile.
OtherNames ==
    {<<"0", "m">>, <<"1", "0", "m">>, <<"a", "m">>, <<>>, <<"x", "y", "z">>,
     <<"0", "p">>, <<"0", "s">>, <<"a", "p">>, <<"a", "s">>, <<"1", "0", "p">>,
     <<"m">>, <<"p">>, <<"s">>, <<"m", "m">>, <<"1", "z">>, <<"5", "M">>,
     <<"m", "1">>, <<"1", "1">>, <<"5">>, <<" ", "m">>, <<"-", "m">>,
     <<"1", "m", " ">>, <<"E", "a", "s", "t">>, <<"e", "a", "s", "t", "t">>,
     <<"e", "a", "s">>, <<"r", "e", "d", "s">>}

\* The texts given to tile_string_to_id: all that tile_id_to_string returns
\* for TileArgs, the fallback names among them, and OtherNames.
NameArgs == {tile_id_to_string(id) : id \in TileArgs} \cup OtherNames

\* The tokens of the lists given to parse_tile_list, each with the id it
\* spells, or -1 when it spells no u32: no digits, a minus sign, blanks, and
\* a number past u32::MAX.
Token(text, id) == [text |-> text, id |-> id]

ListTokens ==
    {Token(Num(n), n) : n \in {0, 53, 135, 136, 9999}}
        \cup {Token(<<"+", "5">>, 5), Token(<<"0", "0", "7">>, 7),
              Token(<<"x">>, -1), Token(<<>>, -1), Token(<<"-", "1">>, -1),
              Token(<<" ", "4">>, -1), Token(<<"1", "m">>, -1),
              Token(<<"4", "2", "9", "4", "9", "6", "7", "2", "9", "6">>, -1)}

TokenLists == UNION {[1..n -> ListTokens] : n \in 0..MaxListLen}

(***************************************************************************)
(* State: the bytes given to parse_mjlog and their decoded text, the       *)
(* fields of MjlogParser, the progress of parse_mjlog, the tags the reader *)
(* has delivered so far, and the last call of a function of the tile       *)
(* codec; where the document is written to (writer), and the state of a    *)
(* second call of parse_mjlog that is not running at the moment (peer).    *)
(***************************************************************************)
VARIABLES reader, content, mjlog_version, game_id, rules, players, rounds,
          current_round, pc, err, output, consumed, call, writer, peer

vars == <<reader, content, mjlog_version, game_id, rules, players, rounds,
          current_round, pc, err, output, consumed, call, writer, peer>>

\* parse_mjlog is called with one of Readers.
InitInput ==
    /\ reader \in Readers
    /\ content = <<>>
    /\ mjlog_version = <<>>
    /\ game_id = ""
    /\ rules = <<>>
    /\ players = <<>>
    /\ rounds = <<>>
    /\ current_round = <<>>
    /\ pc = "reading"
    /\ err = "none"
    /\ output = <<>>
    /\ consumed = <<>>
    /\ call = NoCall
    /\ writer = NoWriter
    /\ peer = NoPeer

\* parse_file is called with a path where no file or some file is, or
\* parse_stream with a writer.
InitFile ==
    /\ \/ \E before \in {"absent", "previous"} :
              writer = FileWriter(before) /\ pc = "opening"
       \/ writer = StreamWriter /\ pc = "reading"
    /\ reader \in Readers
    /\ content = <<>>
    /\ mjlog_version = <<>>
    /\ game_id = ""
    /\ rules = <<>>
    /\ players = <<>>
    /\ rounds = <<>>
    /\ current_round = <<>>
    /\ err = "none"
    /\ output = <<>>
    /\ consumed = <<>>
    /\ call = NoCall
    /\ peer = NoPeer

\* Two calls of parse_mjlog, each with its reader: one is about to run and
\* the other waits.
InitCalls ==
    /\ reader \in CallReaders
    /\ content = <<>>
    /\ mjlog_version = <<>>
    /\ game_id = ""
    /\ rules = <<>>
    /\ players = <<>>
    /\ rounds = <<>>
    /\ current_round = <<>>
    /\ pc = "reading"
    /\ err = "none"
    /\ output = <<>>
    /\ consumed = <<>>
    /\ call = NoCall
    /\ writer = NoWriter
    /\ peer \in {FreshCall(r) : r \in CallReaders}

\* An argument is drawn for one function of the tile codec; no document is
\* parsed.
InitTiles ==
    /\ \/ \E id \in TileArgs : call = [fn |-> "none", id |-> id]
       \/ \E tile \in NameArgs : call = [fn |-> "none", tile |-> tile]
       \/ \E tokens \in TokenLists : call = [fn |-> "none", tokens |-> tokens]
    /\ reader = <<>>
    /\ content = <<>>
    /\ mjlog_version = <<>>
    /\ game_id = ""
    /\ rules = <<>>
    /\ players = <<>>
    /\ rounds = <<>>
    /\ current_round = <<>>
    /\ pc = "idle"
    /\ err = "none"
    /\ output = <<>>
    /\ consumed = <<>>
    /\ writer = NoWriter
    /\ peer = NoPeer

\* MjlogParser::new(), for a small document that is read and decoded.
Init ==
    /\ reader = SmallDocument
    /\ content = Decode(reader).content
    /\ call = NoCall
    /\ writer = NoWriter
    /\ peer = NoPeer
    /\ mjlog_version = <<>>
    /\ game_id \in GameIds
    /\ rules = <<>>
    /\ players = <<>>
    /\ rounds = <<>>
    /\ current_round = <<>>
    /\ pc = "parsing"
    /\ err = "none"
    /\ output = <<>>
    /\ consumed = <<>>

\* The reader delivers a start or empty tag, the n-th at most, that the parse
\* loop dispatches to h.
Reads(element, h, n) ==
    /\ pc = "parsing"
    /\ HasMarkup(content)
    /\ Len(consumed) < n
    /\ Dispatch(element.name) = h

\* The builder takes the error for the end of the parse but goes on.
ReturnedGoesOn(element, e) ==
    /\ consumed' = Append(consumed, element)
    /\ err' = e
    /\ pc' = "parsing"
    /\ UNCHANGED <<reader, content, game_id, output, call, writer, peer>>

\* The builder returned e: Ok(()) goes on with the loop, Err ends parse_mjlog.
Returned(element, e) ==
    /\ consumed' = Append(consumed, element)
    /\ err' = e
    /\ pc' = IF e = "none" THEN "parsing" ELSE "failed"
    /\ UNCHANGED <<reader, content, game_id, output, call, writer, peer>>

\* Each action below reads one tag out of S, as the n-th tag at most.
Mjloggm(S, n) ==
    \E element \in S \cap MjloggmTags :
        /\ Reads(element, "mjloggm", n)
        /\ LET r == parse_mjloggm(mjlog_version, element)
           IN  /\ mjlog_version' = r.mjlog_version
               /\ Returned(element, r.err)
        /\ UNCHANGED <<rules, players, rounds, current_round>>

\* The GO tag ends the open round as an INIT tag does.
GoSealingRound(S, n) ==
    \E element \in S \cap GoTags :
        /\ Reads(element, "GO", n)
        /\ LET r == parse_go(rules, element)
           IN  /\ rules' = r.rules
               /\ Returned(element, r.err)
        /\ rounds' = SealOpenRound(rounds, current_round)
        /\ current_round' = <<>>
        /\ UNCHANGED <<mjlog_version, players>>

Go(S, n) ==
    \E element \in S \cap GoTags :
        /\ Reads(element, "GO", n)
        /\ LET r == parse_go(rules, element)
           IN  /\ rules' = r.rules
               /\ Returned(element, r.err)
        /\ UNCHANGED <<mjlog_version, players, rounds, current_round>>

Un(S, n) ==
    \E element \in S \cap UnTags :
        /\ Reads(element, "UN", n)
        /\ LET r == parse_un(players, element)
           IN  /\ players' = r.players
               /\ Returned(element, r.err)
        /\ UNCHANGED <<mjlog_version, rules, rounds, current_round>>

Taikyoku(S, n) ==
    \E element \in S \cap TaikyokuTags :
        /\ Reads(element, "TAIKYOKU", n)
        /\ Returned(element, parse_taikyoku(element).err)
        /\ UNCHANGED <<mjlog_version, rules, players, rounds, current_round>>

InitTag(S, n) ==
    \E element \in S \cap InitTags :
        /\ Reads(element, "INIT", n)
        /\ LET r == parse_init(rounds, current_round, element)
           IN  /\ rounds' = r.rounds
               /\ current_round' = r.current_round
               /\ Returned(element, r.err)
        /\ UNCHANGED <<mjlog_version, rules, players>>

\* A gameplay builder returned r = [err, current_round].
Built(element, r) ==
    /\ current_round' = r.current_round
    /\ Returned(element, r.err)
    /\ UNCHANGED <<mjlog_version, rules, players, rounds>>

Naki(S, n) ==
    \E element \in S \cap NakiTags :
        Reads(element, "N", n) /\ Built(element, parse_naki(current_round, element))

Dora(S, n) ==
    \E element \in S \cap DoraTags :
        Reads(element, "DORA", n) /\ Built(element, parse_dora(current_round, element))

Reach(S, n) ==
    \E element \in S \cap ReachTags :
        Reads(element, "REACH", n) /\ Built(element, parse_reach(current_round, element))

Agari(S, n) ==
    \E element \in S \cap AgariTags :
        Reads(element, "AGARI", n) /\ Built(element, parse_agari(current_round, element))

Ryuukyoku(S, n) ==
    \E element \in S \cap RyuukyokuTags :
        /\ Reads(element, "RYUUKYOKU", n)
        /\ Built(element, parse_ryuukyoku(current_round, element))

Draw(S, n) ==
    \E element \in S \cap DrawTags :
        Reads(element, "draw", n) /\ Built(element, parse_draw(current_round, element))

Discard(S, n) ==
    \E element \in S \cap DiscardTags :
        /\ Reads(element, "discard", n)
        /\ Built(element, parse_discard(current_round, element))

\* The fields of the MjlogParser of the call.
Parser ==
    [mjlog_version |-> mjlog_version, rules |-> rules, players |-> players,
     rounds |-> rounds, current_round |-> current_round, err |-> err]

\* XmlEvent::Start(ref e) | XmlEvent::Empty(ref e): the n-th tag at most, any
\* element of S, goes through the match, one disjunct for each arm.
StartTag(S, n) ==
    \E element \in S :
        \/ /\ Reads(element, "mjloggm", n)
           /\ LET r == parse_mjloggm(mjlog_version, element)
              IN  mjlog_version' = r.mjlog_version /\ Returned(element, r.err)
           /\ UNCHANGED <<rules, players, rounds, current_round>>
        \/ /\ Reads(element, "GO", n)
           /\ LET r == parse_go(rules, element)
              IN  rules' = r.rules /\ Returned(element, r.err)
           /\ UNCHANGED <<mjlog_version, players, rounds, current_round>>
        \/ /\ Reads(element, "UN", n)
           /\ LET r == parse_un(players, element)
              IN  players' = r.players /\ Returned(element, r.err)
           /\ UNCHANGED <<mjlog_version, rules, rounds, current_round>>
        \/ /\ Reads(element, "TAIKYOKU", n)
           /\ Returned(element, parse_taikyoku(element).err)
           /\ UNCHANGED <<mjlog_version, rules, players, rounds, current_round>>
        \/ /\ Reads(element, "INIT", n)
           /\ LET r == parse_init(rounds, current_round, element)
              IN  /\ rounds' = r.rounds
                  /\ current_round' = r.current_round
                  /\ Returned(element, r.err)
           /\ UNCHANGED <<mjlog_version, rules, players>>
        \/ Reads(element, "N", n) /\ Built(element, parse_naki(current_round, element))
        \/ Reads(element, "DORA", n) /\ Built(element, parse_dora(current_round, element))
        \/ /\ Reads(element, "REACH", n)
           /\ Built(element, parse_reach(current_round, element))
        \/ /\ Reads(element, "AGARI", n)
           /\ Built(element, parse_agari(current_round, element))
        \/ /\ Reads(element, "RYUUKYOKU", n)
           /\ Built(element, parse_ryuukyoku(current_round, element))
        \/ Reads(element, "draw", n) /\ Built(element, parse_draw(current_round, element))
        \/ /\ Reads(element, "discard", n)
           /\ Built(element, parse_discard(current_round, element))
        \/ /\ Reads(element, "unknown", n)
           /\ Returned(element, "none")
           /\ UNCHANGED <<mjlog_version, rules, players, rounds, current_round>>

\* The `_ =>` arm: the tag is logged and nothing else happens.
UnknownTag(S, n) ==
    \E element \in S \cap UnknownTags :
        /\ Reads(element, "unknown", n)
        /\ Returned(element, "none")
        /\ UNCHANGED <<mjlog_version, rules, players, rounds, current_round>>

\* reader.read_event_into(&mut buf)? fails on malformed markup.
ReadError ==
    /\ pc = "parsing"
    /\ HasMarkup(content)
    /\ pc' = "failed"
    /\ err' = "Xml"
    /\ UNCHANGED <<reader, content, mjlog_version, game_id, rules, players, rounds,
                   current_round, output, consumed, call, writer, peer>>

into_output(version, id, rls, plys, rnds) ==
    [mjlog_version |-> version,
     game_id |-> id,
     rules |-> IF rls = <<>> THEN [type_flags |-> 0, lobby_id |-> <<>>] ELSE rls[1],
     players |-> plys,
     rounds |-> rnds]

\* XmlEvent::Eof: leave the loop, seal the open round, return the document.
Eof ==
    /\ pc = "parsing"
    /\ pc' = "done"
    /\ rounds' = SealOpenRound(rounds, current_round)
    /\ current_round' = <<>>
    /\ output' = <<into_output(mjlog_version, game_id, rules, players, rounds')>>
    /\ UNCHANGED <<reader, content, mjlog_version, game_id, rules, players, err,
                   consumed, call, writer, peer>>

\* limited_reader.read_to_end(&mut buf)? fails.
ReadFails ==
    /\ pc = "reading"
    /\ pc' = "failed"
    /\ err' = "Io"
    /\ UNCHANGED <<reader, content, mjlog_version, game_id, rules, players, rounds,
                   current_round, output, consumed, call, writer, peer>>

\* tile_id_to_string(id) is called with the id that was drawn.
TileIdToString ==
    /\ call.fn = "none"
    /\ "id" \in DOMAIN call
    /\ call' = [fn |-> "tile_id_to_string", id |-> call.id,
                result |-> tile_id_to_string(call.id)]
    /\ UNCHANGED <<reader, content, mjlog_version, game_id, rules, players, rounds,
                   current_round, pc, err, output, consumed, writer, peer>>

\* tile_string_to_id(tile) is called with the text that was drawn.
TileStringToId ==
    /\ call.fn = "none"
    /\ "tile" \in DOMAIN call
    /\ call' = [fn |-> "tile_string_to_id", tile |-> call.tile,
                result |-> tile_string_to_id(call.tile)]
    /\ UNCHANGED <<reader, content, mjlog_version, game_id, rules, players, rounds,
                   current_round, pc, err, output, consumed, writer, peer>>

\* parse_tile_list(tiles) is called with the drawn tokens joined by commas.
ParseTileList ==
    /\ call.fn = "none"
    /\ "tokens" \in DOMAIN call
    /\ LET tiles == Join([i \in 1..Len(call.tokens) |-> call.tokens[i].text])
       IN  call' = [fn |-> "parse_tile_list", tokens |-> call.tokens,
                    tiles |-> tiles, result |-> parse_tile_list(tiles)]
    /\ UNCHANGED <<reader, content, mjlog_version, game_id, rules, players, rounds,
                   current_round, pc, err, output, consumed, writer, peer>>

\* std::fs::File::open(input_path) fails: parse_file returns before the
\* output file is made.
OpenInputFails ==
    /\ pc = "opening"
    /\ pc' = "failed"
    /\ err' = "Io"
    /\ UNCHANGED <<reader, content, mjlog_version, game_id, rules, players, rounds,
                   current_round, output, consumed, call, writer, peer>>

\* std::fs::File::create(output_path) fails and leaves the path as it is.
CreateOutputFails ==
    /\ pc = "opening"
    /\ pc' = "failed"
    /\ err' = "Io"
    /\ UNCHANGED <<reader, content, mjlog_version, game_id, rules, players, rounds,
                   current_round, output, consumed, call, writer, peer>>

\* The input is opened and std::fs::File::create(output_path) makes the
\* file, or empties the one that is there; parse_stream is called.
CreateOutput ==
    /\ pc = "opening"
    /\ pc' = "reading"
    /\ writer' = [writer EXCEPT !.file = "empty"]
    /\ UNCHANGED <<reader, content, mjlog_version, game_id, rules, players, rounds,
                   current_round, err, output, consumed, call, peer>>

\* serde_json::to_writer_pretty(&mut writer, &parser_output) after
\* parse_mjlog returned the document.
WriteOutput ==
    /\ pc = "done"
    /\ writer.fn \in {"parse_file", "parse_stream"}
    /\ pc' = "returned"
    /\ writer' = IF writer.fn = "parse_file"
                 THEN [writer EXCEPT !.written = "document", !.file = "document"]
                 ELSE [writer EXCEPT !.written = "document"]
    /\ UNCHANGED <<reader, content, mjlog_version, game_id, rules, players, rounds,
                   current_round, err, output, consumed, call, peer>>

\* to_writer_pretty fails: the error is returned as ParserError::Io, with
\* none or a part of the document written.
WriteFails ==
    /\ pc = "done"
    /\ writer.fn \in {"parse_file", "parse_stream"}
    /\ pc' = "failed_writing"
    /\ err' = "Io"
    /\ \E part \in {"nothing", "partial"} :
           writer' = IF writer.fn = "parse_file"
                     THEN [writer EXCEPT !.written = part,
                                         !.file = IF part = "nothing" THEN "empty"
                                                  ELSE "partial"]
                     ELSE [writer EXCEPT !.written = part]
    /\ UNCHANGED <<reader, content, mjlog_version, game_id, rules, players, rounds,
                   current_round, output, consumed, call, peer>>

\* The variables of the call that is running.
Running ==
    [reader |-> reader, content |-> content, mjlog_version |-> mjlog_version,
     game_id |-> game_id, rules |-> rules, players |-> players, rounds |-> rounds,
     current_round |-> current_round, pc |-> pc, err |-> err, output |-> output,
     consumed |-> consumed]

\* The round list belongs to no call: the call that goes on finds the list
\* the other call left.
ResumedSharingRounds == [peer EXCEPT !.rounds = rounds]

\* What the call that goes on finds: its own locals and its own MjlogParser
\* (`let mut parser = MjlogParser::new()`), as it left them.
Resumed == peer

\* The scheduler lets the other call go on; the running call waits.
Switch ==
    /\ peer.pc # "none"
    /\ peer' = Running
    /\ reader' = Resumed.reader
    /\ content' = Resumed.content
    /\ mjlog_version' = Resumed.mjlog_version
    /\ game_id' = Resumed.game_id
    /\ rules' = Resumed.rules
    /\ players' = Resumed.players
    /\ rounds' = Resumed.rounds
    /\ current_round' = Resumed.current_round
    /\ pc' = Resumed.pc
    /\ err' = Resumed.err
    /\ output' = Resumed.output
    /\ consumed' = Resumed.consumed
    /\ UNCHANGED <<call, writer>>

\* The bytes read into buf: at most MAX_FILE_SIZE of them.
Buf == Take(reader, MAX_FILE_SIZE)

\* The bytes are read and the size of buf is checked.
ReadToEnd ==
    /\ pc = "reading"
    /\ IF TooLarge(Size(Buf))
       THEN pc' = "failed" /\ err' = "Parse"
       ELSE pc' = "decoding" /\ err' = "none"
    /\ UNCHANGED <<reader, content, mjlog_version, game_id, rules, players, rounds,
                   current_round, output, consumed, call, writer, peer>>

\* buf is decoded; unless no content came out of a buffer with errors, the
\* parser is made and the parse begins.
DecodeBuf ==
    /\ pc = "decoding"
    /\ LET d == Decode(Buf)
       IN  IF d.had_errors /\ d.encoding_used # "UTF_8" /\ Size(d.content) = 0
           THEN /\ pc' = "failed"
                /\ err' = "Encoding"
                /\ UNCHANGED <<content, game_id>>
           ELSE /\ pc' = "parsing"
                /\ err' = "none"
                /\ content' = d.content
                /\ game_id' \in GameIds
    /\ UNCHANGED <<reader, mjlog_version, rules, players, rounds, current_round,
                   output, consumed, call, writer, peer>>

\* Every kind of tag, in streams of at most MaxTags tags.
Next ==
    \/ Mjloggm(Tags, MaxTags) \/ Go(Tags, MaxTags) \/ Un(Tags, MaxTags)
    \/ Taikyoku(Tags, MaxTags) \/ InitTag(Tags, MaxTags)
    \/ Naki(Tags, MaxTags) \/ Dora(Tags, MaxTags) \/ Reach(Tags, MaxTags)
    \/ Agari(Tags, MaxTags) \/ Ryuukyoku(Tags, MaxTags)
    \/ Draw(Tags, MaxTags) \/ Discard(Tags, MaxTags)
    \/ UnknownTag(Tags, MaxTags) \/ ReadError \/ Eof

Spec == Init /\ [][Next]_vars

\* Longer streams over RoundTags: several rounds, each with several events.
NextRounds ==
    \/ InitTag(RoundTags, MaxRoundTags)
    \/ Dora(RoundTags, MaxRoundTags) \/ Reach(RoundTags, MaxRoundTags)
    \/ Draw(RoundTags, MaxRoundTags) \/ Discard(RoundTags, MaxRoundTags)
    \/ UnknownTag(RoundTags, MaxRoundTags) \/ ReadError \/ Eof

SpecRounds == Init /\ [][NextRounds]_vars

\* Streams over EventTags: a round and the events of its tags.
NextEvents ==
    \/ InitTag(EventTags, MaxEventTags)
    \/ Naki(EventTags, MaxEventTags)
    \/ Reach(EventTags, MaxEventTags)
    \/ Ryuukyoku(EventTags, MaxEventTags)
    \/ ReadError \/ Eof

SpecEvents == Init /\ [][NextEvents]_vars

\* parse_mjlog from its first line: the bytes are read, checked for size and
\* decoded before the tags of InputTags are read.
NextInput ==
    \/ ReadFails \/ ReadToEnd \/ DecodeBuf
    \/ Mjloggm(InputTags, MaxInputTags) \/ Un(InputTags, MaxInputTags)
    \/ UnknownTag(InputTags, MaxInputTags)
    \/ ReadError \/ Eof

SpecInput == InitInput /\ [][NextInput]_vars

\* Streams over DispatchTags, every tag through the one match of the loop.
NextDispatch == StartTag(DispatchTags, MaxDispatchTags) \/ ReadError \/ Eof

SpecDispatch == Init /\ [][NextDispatch]_vars

\* The loop is synchronous: as long as the call has not returned, its next
\* step is taken.
SpecDispatchFair == SpecDispatch /\ WF_vars(NextDispatch)

\* parse_file and parse_stream: the output file is made, parse_mjlog runs,
\* and the document is written.
NextFile ==
    \/ OpenInputFails \/ CreateOutputFails \/ CreateOutput
    \/ ReadFails \/ ReadToEnd \/ DecodeBuf
    \/ Mjloggm(InputTags, MaxInputTags) \/ Un(InputTags, MaxInputTags)
    \/ UnknownTag(InputTags, MaxInputTags)
    \/ ReadError \/ Eof
    \/ WriteOutput \/ WriteFails

SpecFile == InitFile /\ [][NextFile]_vars

\* Two calls of parse_mjlog, their steps taken in any order.
NextCalls ==
    \/ Switch
    \/ ReadFails \/ ReadToEnd \/ DecodeBuf
    \/ Mjloggm(CallTags, MaxCallTags) \/ InitTag(CallTags, MaxCallTags)
    \/ Draw(CallTags, MaxCallTags)
    \/ ReadError \/ Eof

SpecCalls == InitCalls /\ [][NextCalls]_vars

\* The functions of the tile codec, called by themselves.
NextTiles == TileIdToString \/ TileStringToId \/ ParseTileList

SpecTiles == InitTiles /\ [][NextTiles]_vars

(***************************************************************************)
(* What the properties below are stated with: the tags read so far         *)
(* (consumed), and the events a tag adds to a round that is open.          *)
(***************************************************************************)
Last(s) == s[Len(s)]

IsInit(element) == Dispatch(element.name) = "INIT"

\* An open round seen through its events only.
FreshRound == <<[events |-> <<>>]>>

\* The events one tag adds to an open round, in order.
TagEvents(element) ==
    LET h == Dispatch(element.name)
        r == CASE h = "N" -> parse_naki(FreshRound, element)
               [] h = "DORA" -> parse_dora(FreshRound, element)
               [] h = "REACH" -> parse_reach(FreshRound, element)
               [] h = "AGARI" -> parse_agari(FreshRound, element)
               [] h = "RYUUKYOKU" -> parse_ryuukyoku(FreshRound, element)
               [] h = "draw" -> parse_draw(FreshRound, element)
               [] h = "discard" -> parse_discard(FreshRound, element)
               [] OTHER -> [err |-> "none", current_round |-> FreshRound]
    IN  r.current_round[1].events

RECURSIVE EventsByRound(_, _)
\* One sequence of events for each INIT tag of tags: the events of the tags
\* that follow it, up to the next INIT tag.
EventsByRound(tags, acc) ==
    IF tags = <<>> THEN acc
    ELSE IF IsInit(Head(tags)) THEN EventsByRound(Tail(tags), Append(acc, <<>>))
    ELSE IF acc = <<>> THEN EventsByRound(Tail(tags), acc)
    ELSE EventsByRound(Tail(tags),
                       [acc EXCEPT ![Len(acc)] = @ \o TagEvents(Head(tags))])

\* The round an INIT tag opens when it is the first tag of a file.
OpenedBy(element) == parse_init(<<>>, <<>>, element).current_round[1]

IsPrefix(a, b) == Len(a) <= Len(b) /\ SubSeq(b, 1, Len(a)) = a

\* C1: a returned document has one round for each INIT tag that was read, in
\* the order of the INIT tags, each with the start-of-hand data of its tag and
\* the events of the tags between its INIT tag and the next; the last round,
\* still open at the end of the input, is in the document with the events of
\* the tags after the last INIT tag.
C1_OneRoundPerInitTag ==
    pc = "done" =>
        LET inits == SelectSeq(consumed, IsInit)
            expected == EventsByRound(consumed, <<>>)
            doc == output[1]
        IN  /\ Len(doc.rounds) = Len(inits)
            /\ \A k \in 1..Len(inits) :
                   /\ doc.rounds[k].init = OpenedBy(inits[k]).init
                   /\ doc.rounds[k].dealer_seat = OpenedBy(inits[k]).dealer_seat
                   /\ doc.rounds[k].events = expected[k]

\* Two INIT tags, each followed by a tag that adds an event, then the end of
\* the input.
C1_Witness ==
    /\ pc = "done"
    /\ Len(output[1].rounds) = 2
    /\ output[1].rounds[1].dealer_seat = 0
    /\ output[1].rounds[2].dealer_seat = 1
    /\ Len(output[1].rounds[1].events) = 1
    /\ Len(output[1].rounds[2].events) = 1

\* C2: a step never changes or removes a round that is sealed; it leaves the
\* open round open with its events followed by the events of the tag just
\* read (none when the step reads no tag or the tag fails), or seals it as it
\* is.
C2_EventsAppendOnly ==
    [][/\ Len(rounds') >= Len(rounds)
       /\ \A k \in 1..Len(rounds) : rounds'[k] = rounds[k]
       /\ current_round # <<>> =>
              \/ /\ current_round' # <<>>
                 /\ rounds' = rounds
                 /\ current_round'[1].round_id = current_round[1].round_id
                 /\ IsPrefix(current_round[1].events, current_round'[1].events)
                 /\ current_round'[1].events =
                        current_round[1].events \o
                            (IF consumed' # consumed /\ err' = "none"
                             THEN TagEvents(Last(consumed')) ELSE <<>>)
              \/ /\ rounds' = Append(rounds, current_round[1])
                 /\ IsInit(Last(consumed')) \/ pc' = "done"]_vars

\* An open round with a draw, a discard and a dora event, in the order read.
C2_Witness ==
    /\ current_round # <<>>
    /\ Len(current_round[1].events) = 3
    /\ current_round[1].events[1].type = "draw"
    /\ current_round[1].events[2].type = "discard"
    /\ current_round[1].events[3].type = "dora"

(***************************************************************************)
(* A tag as its text shows it, without any builder: the kinds of tag, the  *)
(* values of an attribute, the fields of a packed list.                    *)
(***************************************************************************)
GameplayKinds == {"N", "DORA", "REACH", "AGARI", "RYUUKYOKU", "draw", "discard"}

\* The step reads a tag.
ReadsTag == consumed' # consumed

\* The tag the step reads.
TagRead == Last(consumed')

KindRead == Dispatch(TagRead.name)

NoBadAttr(element) == \A i \in 1..Len(element.attrs) : ~element.attrs[i].bad

\* The values of the attributes of element named key, in order.
Values(element, key) ==
    LET named == SelectSeq(element.attrs, LAMBDA a : ~a.bad /\ a.key = key)
    IN  [i \in 1..Len(named) |-> named[i].value]

\* The value a builder that keeps the last attribute named key ends with.
LastValue(element, key) ==
    IF Values(element, key) = <<>> THEN <<>> ELSE Last(Values(element, key))

\* The number of fields of a comma list: one more than its commas.
FieldCount(v) == 1 + Cardinality({i \in 1..Len(v) : v[i] = ","})

AllDigits(s) == Len(s) > 0 /\ \A i \in 1..Len(s) : IsDigit(s[i])

IsIntegerText(s) ==
    \/ AllDigits(s)
    \/ Len(s) > 1 /\ Head(s) \in {"+", "-"} /\ AllDigits(Tail(s))

\* C3 (as claimed): a step that reads a gameplay tag while no round is open
\* ends without error and changes nothing but the position in the input.
C3_IdleGameplayTagIgnored ==
    [][(ReadsTag /\ current_round = <<>> /\ KindRead \in GameplayKinds) =>
           /\ pc' = "parsing"
           /\ err' = "none"
           /\ UNCHANGED <<mjlog_version, game_id, rules, players, rounds,
                          current_round, output>>]_vars

\* The lists INIT requires in full.
SeedShort(element) == FieldCount(LastValue(element, K_seed)) < 6

TenShort(element) == FieldCount(LastValue(element, K_ten)) < 4

\* Nothing of the tag fails before the length of its lists is looked at.
OnlyShort(element) ==
    /\ NoBadAttr(element)
    /\ \A i \in 1..Len(Values(element, K_oya)) : AllDigits(Values(element, K_oya)[i])
    /\ SeedShort(element) \/
           \A i \in 1..6 : AllDigits(Split(LastValue(element, K_seed))[i])

\* C4: a step that reads an INIT tag whose seed list has fewer than 6 fields
\* or whose ten list has fewer than 4 (a missing attribute is an empty list)
\* ends the parse with an error, creates and seals no round and returns no
\* document; the error is the invalid-format error when nothing else of the
\* tag fails first.
C4_ShortInitListIsFatal ==
    [][(ReadsTag /\ KindRead = "INIT" /\ (SeedShort(TagRead) \/ TenShort(TagRead))) =>
           /\ pc' = "failed"
           /\ err' \in {"InvalidFormat", "ParseInt", "Attr"}
           /\ OnlyShort(TagRead) => err' = "InvalidFormat"
           /\ rounds' = rounds
           /\ current_round' = current_round
           /\ output' = <<>>]_vars

\* A round is open, an INIT tag with a ten list of two fields was read and
\* the parse has ended with the invalid-format error.
C4_Witness ==
    /\ pc = "failed"
    /\ err = "InvalidFormat"
    /\ Len(consumed) = 2
    /\ Last(consumed) = InitShortTen
    /\ current_round # <<>>
    /\ rounds = <<>>
    /\ output = <<>>

SeatLetters == {"T", "U", "V", "W", "D", "E", "F", "G"}

\* The tag names of the format: the ten fixed names, and a seat letter alone
\* or followed by a tile id.
Recognized(name) ==
    \/ name \in {T_mjloggm, T_GO, T_UN, T_TAIKYOKU, T_INIT, T_N, T_DORA, T_REACH,
                 T_AGARI, T_RYUUKYOKU}
    \/ /\ Len(name) >= 1
       /\ Head(name) \in SeatLetters
       /\ Len(name) = 1 \/ AllDigits(Tail(name))

\* C5 (as claimed): a step that reads a tag whose name is not recognized
\* goes on without error and adds no event, whether a round is open or not.
C5_UnrecognizedTagIgnored ==
    [][(ReadsTag /\ ~Recognized(TagRead.name)) =>
           /\ pc' = "parsing"
           /\ err' = "none"
           /\ rounds' = rounds
           /\ current_round' = current_round]_vars

\* C6 (as claimed): a returned document has four players, of seats 0, 1, 2, 3.
C6_FourPlayers ==
    pc = "done" =>
        /\ Len(output[1].players) = 4
        /\ \A i \in 1..Len(output[1].players) : output[1].players[i].seat = i - 1

(***************************************************************************)
(* The integer sub-fields a builder reads out of a tag, as texts.          *)
(***************************************************************************)
ValueSet(element, key) ==
    {Values(element, key)[i] : i \in 1..Len(Values(element, key))}

\* The first n fields of a comma list, or all of them when it has fewer.
FirstFields(v, n) ==
    {Split(v)[i] : i \in 1..(IF Len(Split(v)) < n THEN Len(Split(v)) ELSE n)}

\* The first n fields of every list named key.
ListFields(element, key, n) == UNION {FirstFields(v, n) : v \in ValueSet(element, key)}

\* The fields of the complete [before, change] pairs among the first four.
ScFields(v) ==
    LET pairs == Len(Split(v)) \div 2
    IN  {Split(v)[i] : i \in 1..(2 * (IF pairs < 4 THEN pairs ELSE 4))}

HandFields(element, key) ==
    IF LastValue(element, key) = <<>> THEN {}
    ELSE FirstFields(LastValue(element, key), Len(LastValue(element, key)))

\* Every text the tag's builder reads as an integer; open tells whether a
\* round is open, suffix whether the suffix of a draw or discard tag's name
\* counts as one.
IntegerTexts(element, open, suffix) ==
    LET h == Dispatch(element.name)
    IN  CASE h = "GO" -> ValueSet(element, K_type) \cup ValueSet(element, K_lobby)
          [] h = "UN" -> ListFields(element, K_dan, 4) \cup ListFields(element, K_rate, 4)
          [] h = "TAIKYOKU" -> ValueSet(element, K_oya)
          [] h = "INIT" ->
                 ValueSet(element, K_oya)
                     \cup (IF SeedShort(element) THEN {}
                           ELSE FirstFields(LastValue(element, K_seed), 6))
                     \cup (IF TenShort(element) THEN {}
                           ELSE FirstFields(LastValue(element, K_ten), 4))
                     \cup HandFields(element, K_hai0) \cup HandFields(element, K_hai1)
                     \cup HandFields(element, K_hai2) \cup HandFields(element, K_hai3)
          [] h = "N" -> ValueSet(element, K_who)
          [] h = "DORA" -> ValueSet(element, K_hai)
          [] h = "REACH" ->
                 ValueSet(element, K_who) \cup ValueSet(element, K_step)
                     \cup ListFields(element, K_ten, 4)
          [] h = "AGARI" ->
                 ValueSet(element, K_who) \cup ValueSet(element, K_fromWho)
                     \cup UNION {IF FieldCount(v) >= 3 THEN FirstFields(v, 3) ELSE {} :
                                     v \in ValueSet(element, K_ten)}
                     \cup UNION {ScFields(v) : v \in ValueSet(element, K_sc)}
          [] h = "RYUUKYOKU" -> UNION {ScFields(v) : v \in ValueSet(element, K_sc)}
          [] h \in {"draw", "discard"} ->
                 IF ~open THEN {}
                 ELSE IF Values(element, <<>>) # <<>> THEN {Values(element, <<>>)[1]}
                 ELSE IF suffix /\ Len(element.name) > 1 THEN {Tail(element.name)}
                 ELSE {}
          [] OTHER -> {}

HasBadInteger(element, open, suffix) ==
    \E t \in IntegerTexts(element, open, suffix) : ~IsIntegerText(t)

\* A draw or discard tag whose tile id can only come from its name, and
\* whose name does not end in an integer.
BadSuffixOnly(element) ==
    /\ Dispatch(element.name) \in {"draw", "discard"}
    /\ NoBadAttr(element)
    /\ Values(element, <<>>) = <<>>
    /\ Len(element.name) > 1
    /\ ~IsIntegerText(Tail(element.name))

\* C7 (as claimed): a step that reads a tag with an integer sub-field whose
\* text is not an integer, the suffix of a draw or discard tag's name
\* included, ends the parse with an error.
C7_BadIntegerIsFatal ==
    [][(ReadsTag /\ HasBadInteger(TagRead, current_round # <<>>, TRUE)) =>
           pc' = "failed"]_vars

\* C7 (amended): a step that reads a tag with an integer sub-field of an
\* attribute value whose text is not an integer ends the parse with the
\* integer-parse error, or the invalid-format error, and no document; a draw
\* or discard tag whose name has a suffix that is not an integer, read while
\* a round is open, adds no event and does not end the parse.
C7_BadAttributeIntegerIsFatal ==
    [][ReadsTag =>
           /\ HasBadInteger(TagRead, current_round # <<>>, FALSE) =>
                  /\ pc' = "failed"
                  /\ output' = <<>>
                  /\ NoBadAttr(TagRead) => err' \in {"ParseInt", "InvalidFormat"}
           /\ (current_round # <<>> /\ BadSuffixOnly(TagRead)) =>
                  /\ pc' = "parsing"
                  /\ err' = "none"
                  /\ current_round' = current_round]_vars

\* A REACH tag whose ten list has a field that is no integer was read while
\* a round was open, and the parse has ended with the integer-parse error.
C7_Witness ==
    /\ pc = "failed"
    /\ err = "ParseInt"
    /\ Len(consumed) = 2
    /\ Last(consumed) = ReachBadTen
    /\ current_round # <<>>
    /\ current_round[1].events = <<>>

\* A packed list with fewer fields than the event takes.
WrongCount(element) ==
    LET h == Dispatch(element.name)
        short(key, n) == \E v \in ValueSet(element, key) : FieldCount(v) < n
        odd(key) == \E v \in ValueSet(element, key) : FieldCount(v) % 2 = 1
    IN  CASE h = "AGARI" -> short(K_ten, 3) \/ short(K_sc, 8) \/ odd(K_sc)
          [] h = "RYUUKYOKU" -> short(K_sc, 8) \/ odd(K_sc)
          [] h = "REACH" -> short(K_ten, 4)
          [] h = "UN" -> short(K_dan, 4) \/ short(K_rate, 4)
          [] OTHER -> FALSE

\* C8 (as claimed): a step that reads an AGARI, RYUUKYOKU, REACH or UN tag
\* with a packed list of too few fields ends the parse with an error.
C8_WrongFieldCountIsFatal ==
    [][(ReadsTag /\ WrongCount(TagRead)) => pc' = "failed"]_vars

\* The seat a draw or discard tag's first letter stands for.
SeatOfLetter(c) ==
    CASE c \in {"T", "D"} -> 0 [] c \in {"U", "E"} -> 1
      [] c \in {"V", "F"} -> 2 [] c \in {"W", "G"} -> 3

\* The event of a draw or discard tag of tile id.
SeatEvent(element, id) ==
    IF Head(element.name) \in {"T", "U", "V", "W"}
    THEN [type |-> "draw", seat |-> SeatOfLetter(Head(element.name)),
          tile |-> tile_id_to_string(id)]
    ELSE [type |-> "discard", seat |-> SeatOfLetter(Head(element.name)),
          tile |-> tile_id_to_string(id), is_riichi |-> FALSE]

\* The tile ids of a set of tiles.
TileIds == 0..135

\* The step adds the event of the tile whose id is written text, and only it.
AddsSeatEvent(text) ==
    /\ pc' = "parsing"
    /\ err' = "none"
    /\ \E id \in TileIds :
           /\ Decimal(id) = text
           /\ current_round' =
                  <<[current_round[1] EXCEPT
                         !.events = Append(@, SeatEvent(TagRead, id))]>>

AddsNoEvent == pc' = "parsing" /\ err' = "none" /\ current_round' = current_round

\* C9: a step that reads a draw or discard tag while a round is open takes
\* the tile id from the first unnamed attribute when there is one
\* (a value that is no integer ends the parse) and from the suffix of the
\* tag name otherwise; with an id it adds exactly one event, with the seat of
\* the tag's first letter and the tile name of the id; with a name that is a
\* seat letter alone, or a suffix that is no integer, it adds no event and
\* the parse goes on.
C9_DrawDiscardTileId ==
    [][(/\ ReadsTag
        /\ KindRead \in {"draw", "discard"}
        /\ current_round # <<>>
        /\ NoBadAttr(TagRead)) =>
           /\ rounds' = rounds
           /\ IF Values(TagRead, <<>>) # <<>>
              THEN IF AllDigits(Values(TagRead, <<>>)[1])
                   THEN AddsSeatEvent(Values(TagRead, <<>>)[1])
                   ELSE pc' = "failed" /\ current_round' = current_round
              ELSE IF Len(TagRead.name) > 1 /\ AllDigits(Tail(TagRead.name))
                   THEN AddsSeatEvent(Tail(TagRead.name))
                   ELSE AddsNoEvent]_vars

\* The tag T52 was read in an open round, which now has the one event of
\* seat 0 drawing tile id 52, the 5p.
C9_Witness ==
    /\ pc = "parsing"
    /\ Len(consumed) = 2
    /\ Last(consumed) = DrawT52
    /\ current_round # <<>>
    /\ current_round[1].events =
           <<[type |-> "draw", seat |-> 0, tile |-> <<"5", "p">>]>>

\* An sc list of eight integers, in a tag with no other defect.
FullSc(element) ==
    /\ Dispatch(element.name) \in {"AGARI", "RYUUKYOKU"}
    /\ NoBadAttr(element)
    /\ Len(Values(element, K_sc)) = 1
    /\ FieldCount(Values(element, K_sc)[1]) = 8
    /\ ~HasBadInteger(element, TRUE, FALSE)

\* C10: a step that reads, while a round is open, an AGARI or RYUUKYOKU tag
\* whose sc list is b0,d0,b1,d1,b2,d2,b3,d3 adds exactly one event, of the
\* tag's kind, whose scores are d0, d1, d2, d3: the 2nd, 4th, 6th and 8th
\* fields of the list.
C10_ScoresAreTheDeltas ==
    [][(ReadsTag /\ current_round # <<>> /\ FullSc(TagRead)) =>
           /\ pc' = "parsing"
           /\ current_round' # <<>>
           /\ Len(current_round'[1].events) = Len(current_round[1].events) + 1
           /\ LET event == Last(current_round'[1].events)
                  sc == Split(Values(TagRead, K_sc)[1])
              IN  /\ event.type = (IF KindRead = "AGARI" THEN "agari" ELSE "ryuukyoku")
                  /\ Len(event.scores) = 4
                  /\ \A i \in 1..4 : Num(event.scores[i]) = sc[2 * i]]_vars

\* The AGARI tag with sc = 240,10,250,-20,250,30,260,-40 was read in an open
\* round, which now ends with its event.
C10_Witness ==
    /\ Len(consumed) = 2
    /\ Last(consumed) = AgariFull
    /\ current_round # <<>>
    /\ Len(current_round[1].events) = 1
    /\ current_round[1].events[1].scores = <<10, -20, 30, -40>>

\* The reason the format gives a type text.
ReasonOfCode(t) ==
    CASE t = <<"n", "m">> -> "Normal"
      [] t = <<"y", "a", "o", "9">> -> "Yao9"
      [] t = <<"k", "a", "z", "e", "4">> -> "Kaze4"
      [] t = <<"r", "e", "a", "c", "h", "4">> -> "Reach4"
      [] t = <<"r", "o", "n", "3">> -> "Ron3"
      [] t = <<"k", "a", "n", "4">> -> "Kan4"
      [] OTHER -> "Normal"

\* C11: a step that reads a RYUUKYOKU tag with well-formed attributes and an
\* sc list of integers goes on without error whatever the type text is; when
\* a round is open it adds exactly one Ryuukyoku event, whose reason is the
\* one of the six codes the type text spells and Normal for every other text
\* and for a tag without a type attribute.
C11_ReasonIsTotal ==
    [][(/\ ReadsTag
        /\ KindRead = "RYUUKYOKU"
        /\ NoBadAttr(TagRead)
        /\ ~HasBadInteger(TagRead, TRUE, FALSE)) =>
           /\ pc' = "parsing"
           /\ err' = "none"
           /\ current_round # <<>> =>
                  /\ current_round' # <<>>
                  /\ Len(current_round'[1].events) = Len(current_round[1].events) + 1
                  /\ Last(current_round'[1].events).type = "ryuukyoku"
                  /\ Last(current_round'[1].events).reason =
                         (IF Values(TagRead, K_type) = <<>> THEN "Normal"
                          ELSE ReasonOfCode(LastValue(TagRead, K_type)))]_vars

\* A round with the events of a tag of type kan4 and of a tag of a type that
\* is no code, in that order.
C11_Witness ==
    /\ pc = "parsing"
    /\ current_round # <<>>
    /\ Len(current_round[1].events) = 2
    /\ consumed[2] = RyuukyokuOfType(<<"k", "a", "n", "4">>)
    /\ consumed[3] = RyuukyokuOfType(<<"r", "o", "n", "4">>)
    /\ current_round[1].events[1].reason = "Kan4"
    /\ current_round[1].events[2].reason = "Normal"

\* The number an attribute of a tag spells, or dflt when the tag has none.
Spelled(element, key, dflt, n) ==
    IF Values(element, key) = <<>> THEN n = dflt
    ELSE Num(n) = LastValue(element, key)

\* C12: a step that reads, while a round is open, a REACH tag with
\* well-formed attributes and integer fields, with a ten list of four fields
\* or none, adds exactly one Reach event at the end of the round's events;
\* the event has the who and the step of the tag, and its scores are the four
\* fields of ten, or four zeros when the tag has no ten attribute.
C12_ReachEvent ==
    [][(/\ ReadsTag
        /\ KindRead = "REACH"
        /\ current_round # <<>>
        /\ NoBadAttr(TagRead)
        /\ ~HasBadInteger(TagRead, TRUE, FALSE)
        /\ Values(TagRead, K_ten) = <<>> \/ FieldCount(LastValue(TagRead, K_ten)) = 4) =>
           /\ pc' = "parsing"
           /\ current_round' # <<>>
           /\ current_round'[1].events # <<>>
           /\ SubSeq(current_round'[1].events, 1, Len(current_round'[1].events) - 1)
                  = current_round[1].events
           /\ LET event == Last(current_round'[1].events)
              IN  /\ event.type = "reach"
                  /\ Spelled(TagRead, K_who, 0, event.who)
                  /\ Spelled(TagRead, K_step, 1, event.step)
                  /\ Len(event.scores) = 4
                  /\ IF Values(TagRead, K_ten) = <<>>
                     THEN event.scores = <<0, 0, 0, 0>>
                     ELSE \A i \in 1..4 :
                              Num(event.scores[i]) = Split(LastValue(TagRead, K_ten))[i]]_vars

\* A round whose events are the Reach of step 1 with the scores of its ten
\* list and then the Reach of step 2 with four zeros.
C12_Witness ==
    /\ current_round # <<>>
    /\ consumed = <<InitA, ReachStep1, ReachStep2>>
    /\ current_round[1].events =
           <<[type |-> "reach", who |-> 0, step |-> 1, scores |-> <<240, 250, 260, 270>>],
             [type |-> "reach", who |-> 2, step |-> 2, scores |-> <<0, 0, 0, 0>>]>>

CallTypes == {"chi", "pon", "kan"}

\* C13 (as claimed): when a step reads an N tag right after another N tag of
\* the same open round, and the two tags have different meld values, the two
\* call events do not report the same tiles from the same source seat,
\* unless they report no tiles at all.
C13_NoFabricatedTiles ==
    [][(/\ ReadsTag
        /\ KindRead = "N"
        /\ pc' = "parsing"
        /\ current_round # <<>>
        /\ current_round[1].events # <<>>
        /\ consumed # <<>>
        /\ Dispatch(Last(consumed).name) = "N"
        /\ Values(Last(consumed), K_meld) # <<>>
        /\ Values(TagRead, K_meld) # <<>>
        /\ LastValue(Last(consumed), K_meld) # LastValue(TagRead, K_meld)) =>
           LET first == Last(current_round[1].events)
               second == Last(current_round'[1].events)
           IN  \/ first.tiles # second.tiles
               \/ first.from # second.from
               \/ first.tiles = <<>> /\ second.tiles = <<>>]_vars

\* C14: a step that reads, while a round is open, an N tag with well-formed
\* attributes and an integer who adds exactly one call event at the end of
\* the round's events, with the who of the tag, and goes on without error,
\* whether the tag has a meld value that is a number, one that is none, or
\* no meld value.
C14_CallEventForEveryMeld ==
    [][(/\ ReadsTag
        /\ KindRead = "N"
        /\ current_round # <<>>
        /\ NoBadAttr(TagRead)
        /\ ~HasBadInteger(TagRead, TRUE, FALSE)) =>
           /\ pc' = "parsing"
           /\ err' = "none"
           /\ current_round' # <<>>
           /\ current_round'[1].events # <<>>
           /\ SubSeq(current_round'[1].events, 1, Len(current_round'[1].events) - 1)
                  = current_round[1].events
           /\ Last(current_round'[1].events).type \in CallTypes
           /\ Spelled(TagRead, K_who, 0, Last(current_round'[1].events).who)]_vars

\* An N tag whose meld value is no number was read in an open round, which
\* now ends with the call event of seat 1.
C14_Witness ==
    /\ pc = "parsing"
    /\ consumed = <<InitA, NakiTextMeld>>
    /\ current_round # <<>>
    /\ Len(current_round[1].events) = 1
    /\ current_round[1].events[1].type \in CallTypes
    /\ current_round[1].events[1].who = 1

\* C15 (as claimed): a reader of more than MAX_FILE_SIZE bytes is rejected
\* with the Parse error before anything is decoded or any tag is read, and a
\* reader of MAX_FILE_SIZE bytes or fewer is never rejected with that error.
C15_SizeCap ==
    /\ Size(reader) > MAX_FILE_SIZE =>
           /\ pc \in {"reading", "failed"}
           /\ pc = "failed" => err \in {"Parse", "Io"}
           /\ content = <<>>
           /\ consumed = <<>>
    /\ Size(reader) <= MAX_FILE_SIZE => err # "Parse"

AllMalformed(runs) ==
    runs # <<>> /\ \A i \in 1..Len(runs) : runs[i].kind = "malformed"

PartlyMalformed(runs) ==
    /\ \E i \in 1..Len(runs) : runs[i].kind = "malformed"
    /\ \E i \in 1..Len(runs) : runs[i].kind = "text"

\* C16 (as claimed): a reader with malformed bytes among text is never
\* rejected with the Encoding error and its parse goes on with the decoded
\* text; a reader of malformed bytes only never gets to the parse of tags and
\* is rejected with the Encoding error.
C16_EncodingTolerance ==
    /\ PartlyMalformed(reader) =>
           /\ err # "Encoding"
           /\ pc \in {"parsing", "done"} =>
                  \E i \in 1..Len(content) : content[i].kind = "replacement"
    /\ AllMalformed(reader) =>
           /\ pc \in {"reading", "decoding", "failed"}
           /\ pc = "failed" => err \in {"Encoding", "Io"}

\* The reference mapping of the 34 tile kinds to their names, kind 0 first.
ReferenceNames ==
    <<  <<"1", "m">>, <<"2", "m">>, <<"3", "m">>, <<"4", "m">>, <<"5", "m">>, <<"6", "m">>, <<"7", "m">>, <<"8", "m">>, <<"9", "m">>,
        <<"1", "p">>, <<"2", "p">>, <<"3", "p">>, <<"4", "p">>, <<"5", "p">>, <<"6", "p">>, <<"7", "p">>, <<"8", "p">>, <<"9", "p">>,
        <<"1", "s">>, <<"2", "s">>, <<"3", "s">>, <<"4", "s">>, <<"5", "s">>, <<"6", "s">>, <<"7", "s">>, <<"8", "s">>, <<"9", "s">>,
        <<"e", "a", "s", "t">>, <<"s", "o", "u", "t", "h">>,
        <<"w", "e", "s", "t">>, <<"n", "o", "r", "t", "h">>,
        <<"w", "h", "i", "t", "e">>, <<"g", "r", "e", "e", "n">>,
        <<"r", "e", "d">>  >>

Canonical(name) == \E k \in 1..34 : ReferenceNames[k] = name

KindOfName(name) == (CHOOSE k \in 1..34 : ReferenceNames[k] = name) - 1

\* C17: tile_id_to_string returns, for an id of 0..135, the reference name of
\* the kind id / 4, which is not empty and not of the fallback form, and for
\* an id of 136 or more the fallback "unknown_" followed by the id in decimal.
C17_ReferenceMapping ==
    call.fn = "tile_id_to_string" =>
        IF call.id <= 135
        THEN /\ call.result = ReferenceNames[(call.id \div 4) + 1]
             /\ call.result # <<>>
             /\ ~IsPrefix(UnknownPrefix, call.result)
        ELSE /\ call.result = UnknownPrefix \o Decimal(call.id)
             /\ call.id = 136 => call.result = UnknownPrefix \o <<"1", "3", "6">>
             /\ call.id = 9999 => call.result = UnknownPrefix \o <<"9", "9", "9", "9">>

\* tile_id_to_string was called with 9999, the id the tests use for the
\* fallback, and returned unknown_9999.
C17_Witness ==
    /\ call.fn = "tile_id_to_string"
    /\ call.id = 9999
    /\ call.result = <<"u", "n", "k", "n", "o", "w", "n", "_", "9", "9", "9", "9">>

\* C18: for an id of 0..135, tile_string_to_id of the name tile_id_to_string
\* returned is Ok(4 * (id / 4)); for a canonical name, tile_id_to_string of the
\* id tile_string_to_id returned is the name again.
C18_RoundTrip ==
    /\ (call.fn = "tile_id_to_string" /\ call.id \in 0..135) =>
           tile_string_to_id(call.result) =
               [err |-> "none", id |-> <<4 * (call.id \div 4)>>]
    /\ (call.fn = "tile_string_to_id" /\ Canonical(call.tile)) =>
           /\ call.result.err = "none"
           /\ tile_id_to_string(call.result.id[1]) = call.tile

\* The id 55 (the fourth 5p) was given the name 5p, which goes back to 52.
C18_Witness ==
    /\ call.fn = "tile_id_to_string"
    /\ call.id = 55
    /\ call.result = <<"5", "p">>
    /\ tile_string_to_id(call.result).id = <<52>>

\* C19: tile_string_to_id returns Ok for the 34 canonical names, with four
\* times the kind of the name, and the InvalidFormat error for every other
\* text.
C19_ExactlyCanonicalNames ==
    call.fn = "tile_string_to_id" =>
        IF Canonical(call.tile)
        THEN call.result = [err |-> "none", id |-> <<4 * KindOfName(call.tile)>>]
        ELSE call.result = [err |-> "InvalidFormat", id |-> <<>>]

\* tile_string_to_id refused the text 0m.
C19_Witness ==
    /\ call.fn = "tile_string_to_id"
    /\ call.tile = <<"0", "m">>
    /\ call.result.err = "InvalidFormat"

\* C20: parse_tile_list returns Ok of the empty list for the empty text; for
\* tokens that all spell a u32 it returns Ok of as many names, the i-th the
\* tile_id_to_string of the i-th token; otherwise it returns the
\* InvalidFormat error and no list.
C20_TileList ==
    call.fn = "parse_tile_list" =>
        IF call.tiles = <<>>
        THEN call.result = [err |-> "none", tiles |-> <<>>]
        ELSE IF \A i \in 1..Len(call.tokens) : call.tokens[i].id >= 0
        THEN /\ call.result.err = "none"
             /\ Len(call.result.tiles) = Len(call.tokens)
             /\ \A i \in 1..Len(call.tokens) :
                    call.result.tiles[i] = tile_id_to_string(call.tokens[i].id)
        ELSE call.result = [err |-> "InvalidFormat", tiles |-> <<>>]

\* parse_tile_list returned three names for "53,136,0", the second of them
\* the fallback name.
C20_Witness ==
    /\ call.fn = "parse_tile_list"
    /\ call.tiles = <<"5", "3", ",", "1", "3", "6", ",", "0">>
    /\ call.result =
           [err |-> "none",
            tiles |-> << <<"5", "p">>,
                         <<"u", "n", "k", "n", "o", "w", "n", "_", "1", "3", "6">>,
                         <<"1", "m">> >>]

\* The label of the k-th round, for k below 10.
LabelOf(k) == <<"R", "o", "u", "n", "d", " ", DigitChars[k + 1]>>

\* C21: in a returned document the k-th round, counted from 1, has the
\* round_id "Round k".
C21_SequentialLabels ==
    pc = "done" =>
        \A k \in 1..Len(output[1].rounds) : output[1].rounds[k].round_id = LabelOf(k)

\* A document of three rounds, with a tag that is no INIT tag read between
\* two of the INIT tags, labelled Round 1, Round 2 and Round 3.
C21_Witness ==
    /\ pc = "done"
    /\ Len(output[1].rounds) = 3
    /\ \E i \in 1..(Len(consumed) - 1) :
           ~IsInit(consumed[i]) /\ \E j \in 1..(i - 1) : IsInit(consumed[j])
    /\ output[1].rounds[1].round_id = <<"R", "o", "u", "n", "d", " ", "1">>
    /\ output[1].rounds[2].round_id = <<"R", "o", "u", "n", "d", " ", "2">>
    /\ output[1].rounds[3].round_id = <<"R", "o", "u", "n", "d", " ", "3">>

HaiKeys == <<K_hai0, K_hai1, K_hai2, K_hai3>>

\* A text that str::parse::<u32>() takes, for numbers that fit.
IsU32Text(s) == AllDigits(s) \/ (Len(s) > 1 /\ Head(s) = "+" /\ AllDigits(Tail(s)))

\* The tag has a hand that is not empty and has a token that is no integer.
HasBadHand(element) ==
    \E seat \in 1..4 : \E field \in HandFields(element, HaiKeys[seat]) : ~IsU32Text(field)

\* C23: every round of a returned document has 4 starting scores and 4
\* starting hands, the hand of a seat empty when the round's INIT tag has no
\* haiN for it; and an INIT tag with a hand that holds a token that is no
\* integer is the last tag read, the parse having failed at it.
C23_FourScoresFourHands ==
    /\ pc = "done" =>
           LET inits == SelectSeq(consumed, IsInit)
           IN  \A k \in 1..Len(output[1].rounds) :
                   /\ Len(output[1].rounds[k].init.initial_scores) = 4
                   /\ Len(output[1].rounds[k].init.initial_hands) = 4
                   /\ \A seat \in 1..4 :
                          Values(inits[k], HaiKeys[seat]) = <<>> =>
                              output[1].rounds[k].init.initial_hands[seat] = <<>>
    /\ \A i \in 1..Len(consumed) :
           (IsInit(consumed[i]) /\ HasBadHand(consumed[i])) =>
               pc = "failed" /\ i = Len(consumed)

\* A returned document whose round has the hands of the seats 0, 1 and 2 of
\* its INIT tag and the empty hand for seat 3, which the tag does not name.
C23_Witness ==
    /\ pc = "done"
    /\ Len(output[1].rounds) = 1
    /\ Values(consumed[1], K_hai3) = <<>>
    /\ output[1].rounds[1].init.initial_hands =
           << <<<<"1", "m">>, <<"2", "m">>>>, <<<<"1", "p">>>>,
              <<<<"e", "a", "s", "t">>>>, <<>> >>
    /\ output[1].rounds[1].init.initial_scores = <<250, 250, 250, 250>>

MetadataNames == {T_mjloggm, T_GO, T_UN, T_TAIKYOKU}

\* The well-formed metadata tags of the model.
GoodMetadata == {MjloggmVer, GoLobby, UnFull, TaikyokuOya}

\* C24: a step that reads a tag named mjloggm, GO, UN or TAIKYOKU leaves the
\* round list and the open round as they are, whether a round is open or
\* not and whether the tag fails or not, and the well-formed ones of these
\* tags are read without error in both states.
C24_MetadataLeavesRounds ==
    [][(ReadsTag /\ TagRead.name \in MetadataNames) =>
           /\ rounds' = rounds
           /\ current_round' = current_round
           /\ TagRead \in GoodMetadata => err' = "none" /\ pc' = "parsing"]_vars

\* A round is open, and the tag read last is the UN tag, which set the
\* players and left the round as it was.
C24_Witness ==
    /\ Len(consumed) = 2
    /\ consumed[1] = InitA
    /\ consumed[2] = UnFull
    /\ err = "none"
    /\ Len(players) = 4
    /\ rounds = <<>>
    /\ current_round = <<OpenedBy(InitA)>>

\* The rounds a state holds: the sealed ones and then the open one, if any.
AllRounds(sealed, open) == sealed \o open

\* C26: a step leaves every sealed round as it is and in its place; it seals
\* at most one round, and only the round that was open, as it was, at an INIT
\* tag or at the end of the input; the open round is never dropped; and no
\* two rounds a state holds have the same label.
C26_SealedOnce ==
    [][/\ IsPrefix(rounds, rounds')
       /\ Len(rounds') <= Len(rounds) + 1
       /\ Len(rounds') = Len(rounds) + 1 =>
              /\ current_round # <<>>
              /\ Last(rounds') = current_round[1]
              /\ pc' = "done" \/ (ReadsTag /\ TagRead.name = T_INIT /\ err' = "none")
       /\ Len(rounds') = Len(rounds) =>
              \/ current_round = <<>>
              \/ /\ current_round' # <<>>
                 /\ current_round'[1].round_id = current_round[1].round_id
                 /\ current_round'[1].init = current_round[1].init
                 /\ current_round'[1].dealer_seat = current_round[1].dealer_seat
       /\ LET all == AllRounds(rounds', current_round')
          IN  \A i, j \in 1..Len(all) : all[i].round_id = all[j].round_id => i = j]_vars

\* A round is sealed with the one event it had when the second INIT tag was
\* read, and the tag read last added an event to the second round, which is
\* open.
C26_Witness ==
    /\ Len(rounds) = 1
    /\ Len(rounds[1].events) = 1
    /\ current_round # <<>>
    /\ Len(current_round[1].events) = 1
    /\ Len(consumed) = 4
    /\ ~IsInit(consumed[4])

\* The fields of an event that hold a seat.
SeatFields == {"seat", "who", "from"}

\* C28 (as claimed): every seat-valued field of every event of a returned
\* document is in 0..3.
C28_SeatsInRange ==
    pc = "done" =>
        \A k \in 1..Len(output[1].rounds) :
            \A i \in 1..Len(output[1].rounds[k].events) :
                LET event == output[1].rounds[k].events[i]
                IN  \A field \in SeatFields \cap DOMAIN event : event[field] \in 0..3

\* The names the match of the parse loop spells out.
ExactNames ==
    {T_mjloggm, T_GO, T_UN, T_TAIKYOKU, T_INIT, T_N, T_DORA, T_REACH, T_AGARI,
     T_RYUUKYOKU}

\* The events of the open round, none when no round is open.
OpenEvents(open) == IF open = <<>> THEN <<>> ELSE open[1].events

\* C27: a step that reads a tag with one of the exact names has the effect of
\* the builder of that name and of no other, and leaves no draw or discard
\* event behind that was not there before, also for the names UN, TAIKYOKU,
\* DORA and GO, whose first letter is a draw or discard letter.
C27_ExactNamesFirst ==
    [][(ReadsTag /\ TagRead.name \in ExactNames) =>
           LET name == TagRead.name
               gameplay ==
                   CASE name = T_N -> parse_naki(current_round, TagRead)
                     [] name = T_DORA -> parse_dora(current_round, TagRead)
                     [] name = T_REACH -> parse_reach(current_round, TagRead)
                     [] name = T_AGARI -> parse_agari(current_round, TagRead)
                     [] name = T_RYUUKYOKU -> parse_ryuukyoku(current_round, TagRead)
                     [] OTHER -> [err |-> "none", current_round |-> current_round]
           IN  /\ name = T_mjloggm =>
                      /\ mjlog_version' = parse_mjloggm(mjlog_version, TagRead).mjlog_version
                      /\ err' = parse_mjloggm(mjlog_version, TagRead).err
               /\ name = T_GO =>
                      /\ rules' = parse_go(rules, TagRead).rules
                      /\ err' = parse_go(rules, TagRead).err
               /\ name = T_UN =>
                      /\ players' = parse_un(players, TagRead).players
                      /\ err' = parse_un(players, TagRead).err
               /\ name = T_TAIKYOKU => err' = parse_taikyoku(TagRead).err
               /\ name = T_INIT =>
                      /\ rounds' = parse_init(rounds, current_round, TagRead).rounds
                      /\ current_round' =
                             parse_init(rounds, current_round, TagRead).current_round
                      /\ err' = parse_init(rounds, current_round, TagRead).err
               /\ name \in {T_N, T_DORA, T_REACH, T_AGARI, T_RYUUKYOKU} =>
                      current_round' = gameplay.current_round /\ err' = gameplay.err
               /\ name \notin {T_INIT, T_N, T_DORA, T_REACH, T_AGARI, T_RYUUKYOKU} =>
                      current_round' = current_round
               /\ Cardinality({i \in 1..Len(OpenEvents(current_round')) :
                                   OpenEvents(current_round')[i].type
                                       \in {"draw", "discard"}})
                      <= Cardinality({i \in 1..Len(OpenEvents(current_round)) :
                                          OpenEvents(current_round)[i].type
                                              \in {"draw", "discard"}})]_vars

\* With a round open, the UN tag set the four players and the DORA tag added
\* a dora event, and the round has no draw and no discard event.
C27_Witness ==
    /\ Len(consumed) = 3
    /\ consumed[1] = InitA
    /\ consumed[2] = UnFull
    /\ consumed[3] = DoraHai
    /\ Len(players) = 4
    /\ current_round # <<>>
    /\ Len(current_round[1].events) = 1
    /\ current_round[1].events[1].type = "dora"

\* C30: the call ends, failed or done; a tag is read only while the parse
\* is going on without error, each step reads at most one tag and keeps the
\* tags read before it in their order; a tag that fails ends the call with
\* its error; and when the call is done no round is open and no error is set.
C30_ParseTerminates ==
    /\ <>(pc \in {"failed", "done"})
    /\ [](pc = "done" => (current_round = <<>> /\ err = "none" /\ output # <<>>))
    /\ [](pc = "failed" => (err # "none" /\ output = <<>>))
    /\ [][/\ IsPrefix(consumed, consumed')
          /\ Len(consumed') <= Len(consumed) + 1
          /\ pc \notin {"failed", "done"}
          /\ ReadsTag => (pc = "parsing" /\ err = "none")
          /\ (ReadsTag /\ err' # "none") => pc' = "failed"
          /\ (ReadsTag /\ err' = "none") => pc' = "parsing"]_vars

\* The second tag of the input failed for its short seed list: the call is
\* over with two tags read and the round of the first tag was not returned.
C30_Witness ==
    /\ pc = "failed"
    /\ err = "InvalidFormat"
    /\ Len(consumed) = 2
    /\ consumed[1] = InitA
    /\ consumed[2] = InitShortSeed
    /\ output = <<>>

\* C29 (as claimed): when parse_file or parse_stream has failed before the
\* document was to be written, nothing was written to the writer and the
\* output path of parse_file holds what it held before the call.
C29_NoOutputOnFailure ==
    (pc = "failed" /\ writer.fn \in {"parse_file", "parse_stream"}) =>
        /\ writer.written = "nothing"
        /\ writer.fn = "parse_file" => writer.file = writer.before

\* MjlogParser::new(), but for the gameId.
NewParser ==
    [mjlog_version |-> <<>>, rules |-> <<>>, players |-> <<>>, rounds |-> <<>>,
     current_round |-> <<>>, err |-> "none"]

RECURSIVE RunAlone(_, _)
\* The fields of a parser that is given tags, one after the other, with
\* nothing else going on, up to the first tag that fails.
RunAlone(self, tags) ==
    IF tags = <<>> \/ self.err # "none" THEN self
    ELSE RunAlone(Handled(self, Head(tags)), Tail(tags))

ParserFields(c) == <<c.mjlog_version, c.rules, c.players, c.rounds, c.current_round>>

\* The call c is where a call with the reader and the tags of c is when it
\* runs alone.
AsAlone(c) ==
    LET alone == RunAlone(NewParser, c.consumed)
        buf == Take(c.reader, MAX_FILE_SIZE)
    IN  /\ c.pc \in {"reading", "decoding"} =>
               /\ ParserFields(c) = ParserFields(NewParser)
               /\ c.consumed = <<>>
               /\ c.err = "none"
        /\ c.pc \in {"decoding", "parsing", "done"} => ~TooLarge(Size(buf))
        /\ c.pc \in {"parsing", "done"} => c.content = Decode(buf).content
        /\ c.pc = "parsing" =>
               /\ ParserFields(c) = ParserFields(alone)
               /\ c.err = "none"
               /\ alone.err = "none"
        /\ c.pc = "failed" =>
               /\ ParserFields(c) = ParserFields(alone)
               /\ \/ c.err = alone.err
                  \/ alone.err = "none" /\ c.err \in {"Io", "Xml"}
                  \/ c.consumed = <<>> /\ c.err = "Parse" /\ TooLarge(Size(buf))
        /\ c.pc # "done" => c.output = <<>>
        /\ c.pc = "done" =>
               /\ alone.err = "none"
               /\ c.output =
                      <<into_output(alone.mjlog_version, c.game_id, alone.rules,
                                    alone.players,
                                    alone.rounds \o alone.current_round)>>

\* C25: whatever the order of the steps of two calls of parse_mjlog, each of
\* them, running or waiting, is in the state and has the result that its
\* reader and its tags give when it runs alone.
C25_CallsDoNotInterfere == AsAlone(Running) /\ AsAlone(peer)

\* Both calls are done after steps of the one were taken between steps of
\* the other: the running call returned a document of one round with a draw
\* event, the waiting call a document without rounds.
C25_Witness ==
    /\ pc = "done"
    /\ peer.pc = "done"
    /\ consumed = <<InitA, DrawT52>>
    /\ peer.consumed = <<MjloggmVer>>
    /\ Len(output[1].rounds) = 1
    /\ Len(output[1].rounds[1].events) = 1
    /\ peer.output[1].rounds = <<>>

====
